---- MODULE Spec2Model ----
(***************************************************************************)
(* Verification model of the option screener (package sellput_checker).    *)
(*                                                                         *)
(* Number representation (fixed point, all integers):                      *)
(*   money (bid, ask, last, mid, strike, spot, spread) : units of $0.10    *)
(*   volatility (iv, sigma)                            : units of 1e-6     *)
(*   d1, d2                                            : units of 1e-3     *)
(*   probabilities, Delta (N(x))                       : units of 1e-4     *)
(*   returns (single_return, annualized_return)        : units of 1e-4     *)
(*   time to expiry T                                  : whole days (/365) *)
(* float("nan") and Python None are two sentinels outside every numeric    *)
(* range; every comparison with NaN is false, as in IEEE-754 / pandas.     *)
(***************************************************************************)
EXTENDS Integers, Sequences, FiniteSets, TLC

VARIABLES
    impl,        \* which evaluator the caller invokes: "checklist" | "cli"
    df,          \* input chain: sequence of raw contract rows
    args,        \* call arguments: spot, expiration, kind, thresholds, ...
    out,         \* returned table: sequence of evaluated rows
    pc           \* "ready" | "returned" | "raised_date" | "raised_volume" | "raised_index"

vars == <<impl, df, args, out, pc>>

\* ------------------------------------------------------------------------
\* Sentinels and bounds
\* ------------------------------------------------------------------------
NaN == -999999
None == -888888

MaxPx == 2          \* number of distinct positive quote levels
MaxWings == 2       \* longest wing-width list typed into a builder
MaxOffset == 1      \* number of distinct future expirations
MaxRows == 3        \* longest chain handed to an evaluator

IsNaN(x) == x = NaN
IsNum(x) == x # NaN /\ x # None

\* IEEE comparisons: false as soon as one side is NaN
Gt(x, y) == x # NaN /\ y # NaN /\ x > y
Ge(x, y) == x # NaN /\ y # NaN /\ x >= y
Lt(x, y) == x # NaN /\ y # NaN /\ x < y
Le(x, y) == x # NaN /\ y # NaN /\ x <= y

\* Python `x or 0.0`: None and 0 are falsy, NaN is truthy
OrZero(x) == IF x = None \/ x = 0 THEN 0 ELSE x

\* Python max(a, b): keeps a unless b > a
PyMax(a, b) == IF Gt(b, a) THEN b ELSE a

\* integer division truncating toward zero (b > 0)
TDiv(a, b) == IF a >= 0 THEN a \div b ELSE -((-a) \div b)

Abs(x) == IF x < 0 THEN -x ELSE x

\* pd.to_numeric(..., errors="coerce"): None becomes NaN
ToNumeric(x) == IF x = None THEN NaN ELSE x

\* series.fillna(0)
FillNa0(x) == IF IsNaN(x) THEN 0 ELSE x

\* ------------------------------------------------------------------------
\* Math primitives (checklist.py)
\* ------------------------------------------------------------------------
\* Phi(x) at x = 0, 0.5, ..., 4.0, in 1e-4; linear in between
PhiTab == <<5000, 6915, 8413, 9332, 9772, 9938, 9987, 9998, 10000>>

NormCdfPos(x) ==
    IF x >= 4000 THEN 10000
    ELSE LET i == x \div 500
             f == x % 500
         IN  PhiTab[i + 1] + ((PhiTab[i + 2] - PhiTab[i + 1]) * f) \div 500

\* _norm_cdf: 0.5 * (1 + erf(x / sqrt 2)); erf is odd
_norm_cdf(x) == IF x < 0 THEN 10000 - NormCdfPos(-x) ELSE NormCdfPos(x)

RiskFree == 500     \* risk_free_rate = 0.05, in 1e-4

\* sqrt(T) in 1e-3, for every day count an expiration can give
SqrtT == [d \in 1..(30 * (MaxOffset + 1)) |->
            CHOOSE k \in 0..1000 :
                k * k <= (d * 1000000) \div 365 /\ (k + 1) * (k + 1) > (d * 1000000) \div 365]

\* exp(-r*T), first order, in 1e-3
Disc(days) == 1000 - (50 * days) \div 365

\* the two formulas for d1 and d2, in 1e-3; a NaN operand gives NaN.
\* ln(S/K) is taken as 2(S-K)/(S+K); a sigma*sqrt(T) below the resolution
\* saturates d1
D1D2Formula(S, K, sigma, days) ==
    IF IsNaN(S) \/ IsNaN(K) \/ IsNaN(sigma) THEN <<NaN, NaN>>
    ELSE LET ln    == TDiv(20000 * (S - K), S + K)
             half  == ((sigma \div 10000) * (sigma \div 10000)) \div 2
             drift == ((RiskFree + half) * days) \div 365
             v     == ((sigma \div 100) * SqrtT[days]) \div 1000
             num   == ln + drift
             d1    == IF v = 0
                      THEN (IF num > 0 THEN 99999 ELSE IF num < 0 THEN -99999 ELSE 0)
                      ELSE TDiv(num * 1000, v)
             d2    == d1 - v \div 10
         IN  <<d1, d2>>

\* mutant: the degenerate-input guard answers (0, 0) instead of NaN
Mut_bs_d1_d2_Zero(S, K, sigma, days) ==
    IF Le(S, 0) \/ Le(K, 0) \/ Le(sigma, 0) \/ days <= 0 THEN <<0, 0>>
    ELSE D1D2Formula(S, K, sigma, days)

\* _bs_d1_d2(S, K, r, sigma, T): <<d1, d2>>, or <<NaN, NaN>> on degenerate input
_bs_d1_d2(S, K, sigma, days) ==
    IF Le(S, 0) \/ Le(K, 0) \/ Le(sigma, 0) \/ days <= 0 THEN <<NaN, NaN>>
    ELSE D1D2Formula(S, K, sigma, days)

_bs_put_price(S, K, sigma, days) ==
    LET d == _bs_d1_d2(S, K, sigma, days)
    IN  IF IsNaN(d[1]) \/ IsNaN(d[2]) \/ IsNaN(S) \/ IsNaN(K) THEN NaN
        ELSE TDiv(((K * Disc(days)) \div 1000) * _norm_cdf(-d[2]) - S * _norm_cdf(-d[1]), 10000)

_bs_call_price(S, K, sigma, days) ==
    LET d == _bs_d1_d2(S, K, sigma, days)
    IN  IF IsNaN(d[1]) \/ IsNaN(d[2]) \/ IsNaN(S) \/ IsNaN(K) THEN NaN
        ELSE TDiv(S * _norm_cdf(d[1]) - ((K * Disc(days)) \div 1000) * _norm_cdf(d[2]), 10000)

\* mutant: N(d1) without the shift by one
Mut_put_delta_NoShift(S, K, sigma, days) ==
    LET d == _bs_d1_d2(S, K, sigma, days)
    IN  IF IsNaN(d[1]) THEN NaN ELSE _norm_cdf(d[1])

_put_delta(S, K, sigma, days) ==
    LET d == _bs_d1_d2(S, K, sigma, days)
    IN  IF IsNaN(d[1]) THEN NaN ELSE _norm_cdf(d[1]) - 10000

_call_delta(S, K, sigma, days) ==
    LET d == _bs_d1_d2(S, K, sigma, days)
    IN  IF IsNaN(d[1]) THEN NaN ELSE _norm_cdf(d[1])

_itm_probability_put(S, K, sigma, days) ==
    LET d == _bs_d1_d2(S, K, sigma, days)
    IN  IF IsNaN(d[2]) THEN NaN ELSE _norm_cdf(-d[2])

_itm_probability_call(S, K, sigma, days) ==
    LET d == _bs_d1_d2(S, K, sigma, days)
    IN  IF IsNaN(d[2]) THEN NaN ELSE _norm_cdf(d[2])


\* price(sig) inside _implied_vol_from_price
IvPrice(S, K, sig, days, kind) ==
    IF kind = "put" THEN _bs_put_price(S, K, sig, days) ELSE _bs_call_price(S, K, sig, days)

IvLo == 100          \* lo = 1e-4
IvHi == 5000000      \* hi = 5.0
IvHiStop == 20000000 \* hi > 20
IvTol == 1           \* tol = 1e-4 dollars, below one price unit: |pm - target| < tol reads pm = target
IvMaxIter == 100     \* max_iter
IvMaxExpand == 10    \* range(10)

RECURSIVE IvExpand(_, _, _, _, _, _, _)
\* for _ in range(10): hi *= 1.5; ph = price(hi); break if target <= ph or hi > 20
IvExpand(target, S, K, days, kind, hi, n) ==
    IF n = 0 THEN hi
    ELSE LET h  == (hi * 3) \div 2
             ph == IvPrice(S, K, h, days, kind)
         IN  IF Le(target, ph) \/ h > IvHiStop THEN h
             ELSE IvExpand(target, S, K, days, kind, h, n - 1)

\* mutant: the upper end of the bracket instead of its midpoint
Mut_IvMid_Hi(lo, hi) == hi

\* mid = 0.5 * (lo + hi)
IvMid(lo, hi) == (lo + hi) \div 2

RECURSIVE IvBisect(_, _, _, _, _, _, _, _)
\* for _ in range(max_iter): the bisection loop; a step that leaves (lo, hi)
\* unchanged repeats unchanged until the iterations run out
IvBisect(target, S, K, days, kind, lo, hi, n) ==
    IF n = 0 THEN IvMid(lo, hi)
    ELSE LET mid == IvMid(lo, hi)
             pm  == IvPrice(S, K, mid, days, kind)
         IN  IF IsNaN(pm) THEN NaN
             ELSE IF Abs(pm - target) < IvTol THEN mid
             ELSE IF pm < target
                  THEN (IF mid = lo THEN IvMid(lo, hi)
                        ELSE IvBisect(target, S, K, days, kind, mid, hi, n - 1))
                  ELSE (IF mid = hi THEN IvMid(lo, hi)
                        ELSE IvBisect(target, S, K, days, kind, lo, mid, n - 1))

\* lines 95-111 without the test of line 104 (target < pl)
Mut_IvBracket_NoLowCheck(target, S, K, days, kind) ==
    IF ~(target # None /\ target # 0 /\ Gt(target, 0)) \/ Le(S, 0) \/ Le(K, 0) \/ days <= 0
    THEN <<>>
    ELSE LET pl == IvPrice(S, K, IvLo, days, kind)
             ph == IvPrice(S, K, IvHi, days, kind)
         IN  IF IsNaN(pl) \/ IsNaN(ph) THEN <<>>
             ELSE IF target > ph
                  THEN <<IvLo, IvExpand(target, S, K, days, kind, IvHi, IvMaxExpand)>>
                  ELSE <<IvLo, IvHi>>

\* lines 95-111: the bracket <<lo, hi>> the loop starts from, or <<>> when
\* the function returns NaN before the loop
IvBracket(target, S, K, days, kind) ==
    IF ~(target # None /\ target # 0 /\ Gt(target, 0)) \/ Le(S, 0) \/ Le(K, 0) \/ days <= 0
    THEN <<>>
    ELSE LET pl == IvPrice(S, K, IvLo, days, kind)
             ph == IvPrice(S, K, IvHi, days, kind)
         IN  IF IsNaN(pl) \/ IsNaN(ph) THEN <<>>
             ELSE IF target < pl THEN <<>>
             ELSE IF target > ph
                  THEN <<IvLo, IvExpand(target, S, K, days, kind, IvHi, IvMaxExpand)>>
                  ELSE <<IvLo, IvHi>>

_implied_vol_from_price(target, S, K, days, kind) ==
    IF IvBracket(target, S, K, days, kind) = <<>> THEN NaN
    ELSE IvBisect(target, S, K, days, kind, IvLo,
                  IvBracket(target, S, K, days, kind)[2], IvMaxIter)

\* ------------------------------------------------------------------------
\* Price resolution (checklist.py)
\* ------------------------------------------------------------------------
_mid_and_source(bid, ask, last_price) ==
    LET b  == OrZero(bid)
        a  == OrZero(ask)
        lp == OrZero(last_price)
    IN  IF Gt(b, 0) /\ Gt(a, 0) THEN <<(b + a) \div 2, "B/A">>
        ELSE IF Gt(b, 0) /\ Le(a, 0) THEN <<b, "Bid">>
        ELSE IF Gt(a, 0) /\ Le(b, 0) THEN <<a, "Ask">>
        ELSE IF Gt(lp, 0) THEN <<lp, "LAST">>
        ELSE <<NaN, "UNKNOWN">>

_spread(bid, ask) ==
    LET b == OrZero(bid)
        a == OrZero(ask)
    IN  IF Gt(b, 0) /\ Gt(a, 0) THEN PyMax(0, a - b) ELSE NaN

\* ------------------------------------------------------------------------
\* Capital and returns (checklist.py)
\* ------------------------------------------------------------------------
Multiplier == 100

\* mutant: no floor at zero
Mut_capital_put_NoFloor(strike, premium_mid, mode) ==
    LET K == OrZero(strike)
        p == OrZero(premium_mid)
    IN  IF mode = "net"
        THEN (IF IsNaN(K) \/ IsNaN(p) THEN NaN ELSE (K - p) * Multiplier)
        ELSE (IF IsNaN(K) THEN NaN ELSE K * Multiplier)

_cash_secured_capital_put(strike, premium_mid, mode) ==
    LET K == OrZero(strike)
        p == OrZero(premium_mid)
    IN  IF mode = "net"
        THEN PyMax(0, IF IsNaN(K) \/ IsNaN(p) THEN NaN ELSE (K - p) * Multiplier)
        ELSE PyMax(0, IF IsNaN(K) THEN NaN ELSE K * Multiplier)

\* calculations.cash_secured_margin(strike, premium, multiplier=100)
cash_secured_margin(strike, premium, multiplier) ==
    PyMax(0, IF IsNaN(strike) \/ IsNaN(premium) THEN NaN ELSE (strike - premium) * multiplier)

_covered_call_capital(spot) ==
    LET S == OrZero(spot)
    IN  PyMax(0, IF IsNaN(S) THEN NaN ELSE S * Multiplier)

RetScale == 10000   \* returns are kept in 1e-4

\* float(premium) * 100 / float(capital) for capital > 0 or NaN, in 1e-4
ReturnRatio(premium, capital, multiplier) ==
    IF IsNaN(premium) \/ IsNaN(capital) THEN NaN
    ELSE (premium * multiplier * RetScale) \div capital

\* x * (365.0 / days) and x / (days / 365.0)
Annualize(x, days_to_exp) ==
    IF IsNaN(x) THEN NaN ELSE (x * 365) \div days_to_exp

_single_return(premium_mid, capital) ==
    IF Le(capital, 0) THEN 0
    ELSE ReturnRatio(OrZero(premium_mid), capital, Multiplier)

\* mutant: a day count below 1 is floored at 1 instead of giving 0
Mut_annualized_return_FloorDays(premium_mid, capital, days_to_exp) ==
    IF Le(capital, 0) THEN 0
    ELSE Annualize(_single_return(premium_mid, capital), IF days_to_exp < 1 THEN 1 ELSE days_to_exp)

_annualized_return(premium_mid, capital, days_to_exp) ==
    IF Le(capital, 0) \/ days_to_exp <= 0 THEN 0
    ELSE Annualize(_single_return(premium_mid, capital), days_to_exp)

\* float(None) raises TypeError
Raised == -555555

\* calculations.single_return(premium, margin, multiplier=100)
single_return(premium, margin, multiplier) ==
    IF Le(margin, 0) THEN 0
    ELSE IF premium = None THEN Raised
    ELSE ReturnRatio(premium, margin, multiplier)

\* calculations.annualized_return(premium, margin, days_to_exp, multiplier=100)
annualized_return(premium, margin, days_to_exp, multiplier) ==
    IF Le(margin, 0) \/ days_to_exp <= 0 THEN 0
    ELSE IF single_return(premium, margin, multiplier) = Raised THEN Raised
    ELSE Annualize(single_return(premium, margin, multiplier), days_to_exp)


\* ------------------------------------------------------------------------
\* checklist.evaluate_chain_df
\* ------------------------------------------------------------------------
Today == 100        \* dt.date.today(), as a day number

BadDate == -777777 \* an expiration string that is not an ISO date

\* dt.date.fromisoformat(expiration): the day number, or ParseError when it raises
ParseError == -666666
ParseIso(expiration) == IF expiration = BadDate THEN ParseError ELSE expiration

\* lines 206-212: days_to_exp
DaysToExp(expiration, default_days_if_unknown) ==
    LET exp_date == ParseIso(expiration)
    IN  IF exp_date = ParseError THEN PyMax(1, default_days_if_unknown)
        ELSE PyMax(1, exp_date - Today)

\* lines 235-238: first positive candidate, else 0.0
LastPrice(v) == IF v # None /\ Gt(v, 0) THEN v ELSE 0

\* lines 240-248: float(iv_val), NaN unless > 0 (float(None) raises -> NaN)
QuoteIv(iv_val) == IF iv_val # None /\ Gt(iv_val, 0) THEN iv_val ELSE NaN

SigmaFloor == 1     \* 1e-6 in max(iv, 1e-6)

\* lines 285, 291 with the ITM probability always
Mut_AssignProb_Itm(delta_for_filter, itm_prob) == itm_prob

\* lines 285, 291: assign_prob
AssignProb(delta_for_filter, itm_prob) ==
    IF Gt(delta_for_filter, 0) THEN delta_for_filter ELSE itm_prob

\* The body of the loop over df.iterrows() (lines 230-330) in five steps,
\* each handing its locals to the next.
\* lines 295-330: returns and the row appended to `rows`; l_mid, l_src,
\* l_theo, l_iv_quote, l_inverted record the locals of lines 257, 268,
\* 244-248 and 277-279
RowOut(x, ms, spr, theo, mid, price_src, premium, iv, inverted, dlt, itm_prob, capital) ==
    LET delta_for_filter == IF IsNaN(dlt) THEN NaN
                            ELSE IF x.kind = "put" THEN Abs(dlt) ELSE dlt
    IN  [ kind |-> x.kind, strike |-> x.strike, bid |-> x.bid, ask |-> x.ask,
          last_price |-> x.last_price, mid |-> mid, premium |-> premium, iv |-> iv,
          delta |-> delta_for_filter,
          assign_prob_est |-> AssignProb(delta_for_filter, itm_prob),
          itm_prob |-> itm_prob, days_to_exp |-> x.days,
          margin_cash_secured |-> capital,
          single_return |-> _single_return(premium, capital),
          annualized_return |-> _annualized_return(premium, capital, x.days),
          spread |-> spr, volume |-> x.volume, price_source |-> price_src,
          bid_display |-> IF x.bid > 0 THEN x.bid
                          ELSE IF x.last_price > 0 THEN x.last_price
                          ELSE IF Gt(mid, 0) THEN mid ELSE NaN,
          ask_display |-> IF x.ask > 0 THEN x.ask
                          ELSE IF x.last_price > 0 THEN x.last_price
                          ELSE IF Gt(mid, 0) THEN mid ELSE NaN,
          spread_display |-> spr,
          l_mid |-> ms[1], l_src |-> ms[2],
          l_theo |-> IF ~Gt(ms[1], 0) THEN theo ELSE NaN,
          l_iv_quote |-> x.iv0, l_inverted |-> inverted ]

\* lines 281-293: Delta, ITM probability and capital under sigma = max(iv, 1e-6)
RowGreeks(x, ms, spr, theo, mid, price_src, premium, iv, inverted) ==
    RowOut(x, ms, spr, theo, mid, price_src, premium, iv, inverted,
           IF x.kind = "put" THEN _put_delta(x.S, x.strike, PyMax(iv, SigmaFloor), x.days)
           ELSE _call_delta(x.S, x.strike, PyMax(iv, SigmaFloor), x.days),
           IF x.kind = "put" THEN _itm_probability_put(x.S, x.strike, PyMax(iv, SigmaFloor), x.days)
           ELSE _itm_probability_call(x.S, x.strike, PyMax(iv, SigmaFloor), x.days),
           IF x.kind = "put" THEN _cash_secured_capital_put(x.strike, premium, x.mode)
           ELSE _covered_call_capital(x.S))

\* lines 275-279: a missing IV is inverted from the premium
RowInvert(x, ms, spr, theo, mid, price_src, premium, iv_b) ==
    RowGreeks(x, ms, spr, theo, mid, price_src, premium,
              IF Gt(iv_b, 0) THEN iv_b ELSE x.iv0, Gt(iv_b, 0))

\* line 273: premium
RowPremium(x, ms, spr, theo, mid, price_src, premium) ==
    RowInvert(x, ms, spr, theo, mid, price_src, premium,
              IF ~Gt(x.iv0, 0) /\ premium > 0 /\ Gt(x.S, 0)
              THEN _implied_vol_from_price(premium, x.S, x.strike, x.days, x.kind)
              ELSE NaN)

\* lines 260-271: the theoretical fallback when mid is not usable
RowTheo(x, ms, spr, theo) ==
    RowPremium(x, ms, spr, theo,
               IF ~Gt(ms[1], 0) /\ Gt(theo, 0) THEN theo ELSE ms[1],
               IF ~Gt(ms[1], 0) /\ Gt(theo, 0) THEN "THEO" ELSE ms[2],
               IF ~Gt(ms[1], 0) /\ Gt(theo, 0) THEN theo
               ELSE IF Gt(ms[1], 0) THEN ms[1] ELSE 0)

\* lines 232-258: the fields read from the row, then mid, source and spread
EvalRow(r, a, days_to_exp, eff_kind) ==
    LET x == [ S |-> OrZero(a.spot), bid |-> OrZero(r.bid), ask |-> OrZero(r.ask),
               strike |-> OrZero(r.strike), last_price |-> LastPrice(r.last),
               iv0 |-> QuoteIv(r.iv), volume |-> OrZero(r.volume),
               kind |-> eff_kind, days |-> days_to_exp, mode |-> a.put_capital_mode ]
    IN  RowTheo(x, _mid_and_source(x.bid, x.ask, x.last_price), _spread(x.bid, x.ask),
                IvPrice(x.S, x.strike, IF Gt(x.iv0, 0) THEN x.iv0 ELSE 400000, x.days, x.kind))

\* the evaluated row e with its six boolean columns
WithFlags(e, ok_delta, ok_iv, ok_spread, ok_volume, ok_annual, ok_all) ==
    [ f \in (DOMAIN e) \cup {"ok_delta", "ok_iv", "ok_spread", "ok_volume", "ok_annual", "ok_all"} |->
        CASE f = "ok_delta"  -> ok_delta
          [] f = "ok_iv"     -> ok_iv
          [] f = "ok_spread" -> ok_spread
          [] f = "ok_volume" -> ok_volume
          [] f = "ok_annual" -> ok_annual
          [] f = "ok_all"    -> ok_all
          [] OTHER           -> e[f] ]

\* mutant: a usable price (mid > 0) is required as a sixth condition
Mut_OkAll_Price(e, ok_delta, ok_iv, ok_spread, ok_volume, ok_annual) ==
    ok_delta /\ ok_iv /\ ok_spread /\ ok_volume /\ ok_annual /\ Gt(e.mid, 0)

\* line 342: ok_all of the row e
OkAll(e, ok_delta, ok_iv, ok_spread, ok_volume, ok_annual) ==
    ok_delta /\ ok_iv /\ ok_spread /\ ok_volume /\ ok_annual

\* mutant: undefined Delta and IV are filled with 0 before the comparison
Mut_AddFlags_FillNa(e, a) ==
    LET ok_delta  == FillNa0(e.delta) <= a.delta_high
        ok_iv     == FillNa0(e.iv) >= a.iv_min /\ FillNa0(e.iv) <= a.iv_max
        ok_spread == Le(e.spread, a.max_spread) \/ IsNaN(e.spread)
        ok_volume == e.volume >= a.min_volume
        ok_annual == e.annualized_return >= a.min_annual
    IN  WithFlags(e, ok_delta, ok_iv, ok_spread, ok_volume, ok_annual,
                  OkAll(e, ok_delta, ok_iv, ok_spread, ok_volume, ok_annual))

\* lines 336-342: the criteria; a NaN comparison is False in pandas
AddFlags(e, a) ==
    LET ok_delta  == Le(e.delta, a.delta_high) /\ ~IsNaN(e.delta)
        ok_iv     == Ge(e.iv, a.iv_min) /\ Le(e.iv, a.iv_max) /\ ~IsNaN(e.iv)
        ok_spread == Le(e.spread, a.max_spread) \/ IsNaN(e.spread)
        ok_volume == e.volume >= a.min_volume
        ok_annual == e.annualized_return >= a.min_annual
    IN  WithFlags(e, ok_delta, ok_iv, ok_spread, ok_volume, ok_annual,
                  OkAll(e, ok_delta, ok_iv, ok_spread, ok_volume, ok_annual))

\* mutant: an unknown spread sorts first (na_position="first")
Mut_SortsBefore_NaFirst(x, y) ==
    IF x.ok_all # y.ok_all THEN x.ok_all
    ELSE IF x.annualized_return # y.annualized_return
         THEN x.annualized_return > y.annualized_return
    ELSE IF x.volume # y.volume THEN x.volume > y.volume
    ELSE IF IsNaN(x.spread) \/ IsNaN(y.spread) THEN IsNaN(x.spread) /\ ~IsNaN(y.spread)
    ELSE x.spread < y.spread

\* sort key order of lines 345-347: ok_all desc, annualized_return desc,
\* volume desc, spread asc with NaN last; TRUE when x must come strictly before y
SortsBefore(x, y) ==
    IF x.ok_all # y.ok_all THEN x.ok_all
    ELSE IF x.annualized_return # y.annualized_return
         THEN x.annualized_return > y.annualized_return
    ELSE IF x.volume # y.volume THEN x.volume > y.volume
    ELSE IF IsNaN(x.spread) \/ IsNaN(y.spread) THEN ~IsNaN(x.spread) /\ IsNaN(y.spread)
    ELSE x.spread < y.spread

RECURSIVE InsertSorted(_, _)
InsertSorted(x, s) ==
    IF s = <<>> THEN <<x>>
    ELSE IF SortsBefore(x, Head(s)) THEN <<x>> \o s
    ELSE <<Head(s)>> \o InsertSorted(x, Tail(s))

RECURSIVE SortValues(_)
\* out.sort_values(...).reset_index(drop=True): stable, so a later row is
\* inserted after the earlier rows it ties with
SortValues(s) ==
    IF s = <<>> THEN <<>>
    ELSE LET rest == SortValues(SubSeq(s, 1, Len(s) - 1))
             x    == s[Len(s)]
         IN  IF rest = <<>> THEN <<x>>
             ELSE IF SortsBefore(x, rest[Len(rest)]) THEN InsertSorted(x, rest)
             ELSE rest \o <<x>>

\* _infer_kind_from_symbol: the letter before the 8 strike digits of an OCC symbol
_infer_kind_from_symbol(cs) ==
    IF cs = "C" THEN "call" ELSE IF cs = "P" THEN "put" ELSE "none"

\* lines 214-224: eff_kind; "auto" reads the first non-null contract_symbol
EffKind(kind, chain) ==
    IF kind # "auto" THEN kind
    ELSE LET nonnull  == {i \in 1..Len(chain) : chain[i].cs # "null"}
             cs0      == IF nonnull = {} THEN "null"
                         ELSE chain[CHOOSE i \in nonnull : \A j \in nonnull : i <= j].cs
             inferred == IF cs0 = "null" THEN "none" ELSE _infer_kind_from_symbol(cs0)
         IN  IF inferred = "none" THEN "put" ELSE inferred

\* int(float(r.get("volume", 0) or 0)) raises ValueError on NaN
VolumeRaises(r) == IsNaN(OrZero(r.volume))

\* evaluate_chain_df of checklist.py, the whole call
Evaluate ==
    /\ pc = "ready"
    /\ impl = "checklist"
    /\ IF df = <<>>
       THEN /\ out' = <<>>
            /\ pc' = "returned"
       ELSE IF \E i \in 1..Len(df) : VolumeRaises(df[i])
       THEN /\ out' = <<>>
            /\ pc' = "raised_volume"
       ELSE LET days_to_exp == DaysToExp(args.expiration, args.default_days_if_unknown)
                eff_kind == EffKind(args.kind, df)
                rows == [i \in 1..Len(df) |-> AddFlags(EvalRow(df[i], args, days_to_exp, eff_kind), args)]
            IN  /\ out' = SortValues(rows)
                /\ pc' = "returned"
    /\ UNCHANGED <<impl, df, args>>


\* ------------------------------------------------------------------------
\* cli.evaluate_chain_df (the older, put-only variant)
\* ------------------------------------------------------------------------
PosInf == 999999    \* float("inf"), from a division by zero in pandas

\* datetime.strptime(exp, "%Y-%m-%d") raises ValueError on a malformed string
CliDaysToExp(exp) ==
    LET d == exp - Today
    IN  IF d <= 0 THEN 1 ELSE d

\* x / y * k on float columns: NaN propagates, a zero divisor gives inf
FloatRatio(x, y, days) ==
    IF IsNaN(x) \/ IsNaN(y) THEN NaN
    ELSE IF y = 0 THEN (IF x = 0 THEN NaN ELSE IF x > 0 THEN PosInf ELSE -PosInf)
    ELSE TDiv(TDiv(x * RetScale, Abs(y)) * (IF y < 0 THEN -1 ELSE 1) * 365, days)

\* lines 29-124 for one row
CliEvalRow(r, a, days_to_exp) ==
    LET bid        == ToNumeric(r.bid)
        ask        == ToNumeric(r.ask)
        strike     == ToNumeric(r.strike)
        last_price == ToNumeric(r.last)
        has_bid    == FillNa0(bid) > 0
        has_ask    == FillNa0(ask) > 0
        has_ba     == has_bid /\ has_ask
        has_last   == FillNa0(last_price) > 0
        mid        == IF has_ba THEN (FillNa0(bid) + FillNa0(ask)) \div 2
                      ELSE IF has_bid /\ ~has_ask THEN bid
                      ELSE IF has_ask /\ ~has_bid THEN ask
                      ELSE IF ~has_ba /\ has_last THEN last_price
                      ELSE NaN
        price_src  == IF has_ba THEN "B/A"
                      ELSE IF has_bid /\ ~has_ask THEN "Bid"
                      ELSE IF has_ask /\ ~has_bid THEN "Ask"
                      ELSE IF ~has_ba /\ has_last THEN "LAST"
                      ELSE "UNKNOWN"
        spr        == IF has_ba THEN PyMax(FillNa0(ask) - FillNa0(bid), 0) ELSE NaN
        ok_price   == FillNa0(mid) > 0
        delta_abs  == IF IsNaN(r.delta) THEN NaN ELSE Abs(r.delta)
        itm_prob   == IF IsNaN(delta_abs) THEN NaN
                      ELSE IF r.itm THEN 10000 - delta_abs ELSE delta_abs
        margin     == IF IsNaN(strike) THEN NaN ELSE strike * Multiplier
        single     == IF IsNaN(mid) THEN NaN ELSE mid * Multiplier
        annual     == FloatRatio(single, margin, days_to_exp)
        ok_delta   == Le(delta_abs, a.delta_high)
        ok_iv      == Ge(r.iv, a.iv_min) /\ Le(r.iv, a.iv_max)
        ok_spread  == Le(spr, a.max_spread)
        ok_volume  == Ge(r.volume, a.min_volume)
        ok_annual  == Ge(annual, a.min_annual)
    IN  [ strike |-> strike, bid |-> bid, ask |-> ask, last |-> r.last,
          last_price |-> last_price, mid |-> mid, price_source |-> price_src, spread |-> spr, ok_price |-> ok_price,
          delta |-> r.delta, delta_abs |-> delta_abs, itm_prob |-> itm_prob,
          margin_cash_secured |-> margin, single_return |-> single,
          annualized_return |-> annual, volume |-> r.volume, iv |-> r.iv,
          in_the_money |-> r.itm, days_to_exp |-> days_to_exp,
          ok_delta |-> ok_delta, ok_iv |-> ok_iv, ok_spread |-> ok_spread,
          ok_volume |-> ok_volume, ok_annual |-> ok_annual,
          ok_all |-> ok_delta /\ ok_iv /\ ok_spread /\ ok_volume /\ ok_annual /\ ok_price ]

\* evaluate_chain_df of cli.py, the whole call; the columns are added to the
\* caller's table in place and a copy of it is returned
EvaluateCli ==
    /\ pc = "ready"
    /\ impl = "cli"
    /\ IF df = <<>>
       THEN /\ out' = df
            /\ df' = df
            /\ pc' = "returned"
       ELSE IF ParseIso(args.expiration) = ParseError
       THEN /\ out' = <<>>
            /\ df' = df
            /\ pc' = "raised_date"
       ELSE LET days_to_exp == CliDaysToExp(ParseIso(args.expiration))
                rows == [i \in 1..Len(df) |-> CliEvalRow(df[i], args, days_to_exp)]
            IN  /\ out' = rows
                /\ df' = rows
                /\ pc' = "returned"
    /\ UNCHANGED <<impl, args>>

\* ------------------------------------------------------------------------
\* Inputs
\* ------------------------------------------------------------------------
\* positive quote levels: $1.00, $1.20, ...
PxLevel(i) == 8 + 2 * i
Quotes == {NaN, 0} \cup {PxLevel(i) : i \in 1..MaxPx}
Lasts == {NaN, 0, 9}
Ivs == {NaN, 0, 300000}
Strikes == {-950, 0, 950, 1050}
Spots == {NaN, -1000, 0, 1000}
Volumes == {0, 500}
Expirations == {BadDate, Today - 1, Today} \cup {Today + 30 * i : i \in 1..MaxOffset}

\* thresholds: the defaults of the signature, a tighter set and a lenient set
ThresholdSets ==
    { [delta_high |-> 3500, iv_min |-> 0, iv_max |-> 10000000, max_spread |-> 1,
       min_volume |-> 0, min_annual |-> 1000],
      [delta_high |-> 7000, iv_min |-> 350000, iv_max |-> 1000000, max_spread |-> 0,
       min_volume |-> 100, min_annual |-> 500],
      [delta_high |-> 10000, iv_min |-> 0, iv_max |-> 10000000, max_spread |-> 10,
       min_volume |-> 0, min_annual |-> 0] }

\* contract_symbol: an OCC call ("C") or put ("P") symbol, some other text, or null
Symbols == {"C", "P", "X", "null"}

RawRows ==
    [bid : Quotes, ask : Quotes, last : Lasts, iv : Ivs, strike : Strikes,
     volume : Volumes \cup {NaN}, delta : {NaN}, itm : {FALSE}, cs : {"null"}]

\* chains evaluated with kind="auto"; also a quoted volatility of 0.01,
\* under which Delta is exactly 0 or 1 away from the money
AutoRows ==
    [bid : Quotes, ask : Quotes, last : Lasts, iv : Ivs \cup {10000}, strike : Strikes,
     volume : {500}, delta : {NaN}, itm : {FALSE}, cs : Symbols]

CliRows ==
    [bid : Quotes, ask : Quotes, last : Lasts, iv : Ivs, strike : Strikes,
     volume : Volumes \cup {NaN}, delta : {NaN, -2500, 6000}, itm : BOOLEAN, cs : {"null"}]

KindModes == {<<"put", "strike">>, <<"put", "net">>, <<"call", "strike">>}
ExpDefaults == {<<e, 30>> : e \in Expirations} \cup {<<BadDate, 0>>}

MkArgs(spot, km, ed, th) ==
    [spot |-> spot, kind |-> km[1], put_capital_mode |-> km[2],
     expiration |-> ed[1], default_days_if_unknown |-> ed[2],
     delta_high |-> th.delta_high, iv_min |-> th.iv_min, iv_max |-> th.iv_max,
     max_spread |-> th.max_spread, min_volume |-> th.min_volume,
     min_annual |-> th.min_annual]

Chains(rows) == {<<>>} \cup {<<r>> : r \in rows}

\* chains of several contracts of one strike and volatility: a bid of 0 or
\* $1.00, any ask that is not missing, no last trade
SortRows ==
    [bid : {0, PxLevel(1)}, ask : Quotes \ {NaN}, last : {0}, iv : {300000}, strike : {950},
     volume : Volumes, delta : {NaN}, itm : {FALSE}, cs : {"null"}]

SortChains == UNION { [1..n -> SortRows] : n \in 2..MaxRows }

\* every spot and kind with the first future expiration, and every
\* expiration with a $100 spot and a put in strike mode
ChecklistArgs ==
    {MkArgs(s, km, <<Today + 30, 30>>, th) : s \in Spots, km \in KindModes, th \in ThresholdSets}
      \cup {MkArgs(1000, <<"put", "strike">>, ed, th) : ed \in ExpDefaults, th \in ThresholdSets}

CliArgs ==
    {MkArgs(1000, <<"put", "strike">>, <<e, 30>>, th) : e \in Expirations, th \in ThresholdSets}

Init ==
    /\ pc = "ready"
    /\ out = <<>>
    /\ impl \in {"checklist", "cli"}
    /\ \/ /\ impl = "checklist"
          /\ df \in Chains(RawRows)
          /\ args \in ChecklistArgs
       \/ /\ impl = "checklist"
          /\ df \in Chains(AutoRows)
          /\ args = MkArgs(1000, <<"auto", "strike">>, <<Today + 30, 30>>,
                           [delta_high |-> 3500, iv_min |-> 0, iv_max |-> 10000000,
                            max_spread |-> 1, min_volume |-> 0, min_annual |-> 1000])
       \/ /\ impl = "checklist"
          /\ df \in SortChains
          /\ args \in {MkArgs(1000, <<"put", "strike">>, <<Today + 30, 30>>, th) : th \in ThresholdSets}
       \/ /\ impl = "cli"
          /\ df \in Chains(CliRows)
          /\ args \in CliArgs

Next == Evaluate \/ EvaluateCli

Spec == Init /\ [][Next]_vars


\* ------------------------------------------------------------------------
\* Leg preparation for the multi-leg builders (app.py, calculations.py)
\* ------------------------------------------------------------------------
\* float addition and subtraction: NaN propagates
FAdd(x, y) == IF IsNaN(x) \/ IsNaN(y) THEN NaN ELSE x + y
FSub(x, y) == IF IsNaN(x) \/ IsNaN(y) THEN NaN ELSE x - y

\* calculations.bs_d1_d2: <<0, 0>> on degenerate input
bs_d1_d2(S, K, sigma, days) ==
    IF Le(S, 0) \/ Le(K, 0) \/ Le(sigma, 0) \/ days <= 0 THEN <<0, 0>>
    ELSE D1D2Formula(S, K, sigma, days)

\* utils.clamp(x, lo, hi) = max(lo, min(hi, x))
clamp(x, lo, hi) == PyMax(lo, IF Lt(x, hi) THEN x ELSE hi)

\* calculations.put_delta: abs(N(d1) - 1)
put_delta(S, K, sigma, days) ==
    LET d == bs_d1_d2(S, K, sigma, days)
    IN  IF IsNaN(d[1]) THEN NaN ELSE Abs(_norm_cdf(d[1]) - 10000)

\* calculations.itm_probability: clamp(N(-d2), 0, 1)
itm_probability(S, K, sigma, days) ==
    LET d == bs_d1_d2(S, K, sigma, days)
    IN  IF IsNaN(d[2]) THEN 10000 ELSE clamp(_norm_cdf(-d[2]), 0, 10000)

\* app.bs_price_theo: 0.0 on degenerate input
bs_price_theo(S, K, sigma, days, is_call) ==
    IF Le(S, 0) \/ Le(K, 0) \/ Le(sigma, 0) \/ days <= 0 THEN 0
    ELSE LET d == bs_d1_d2(S, K, sigma, days)
         IN  IF IsNaN(d[1]) \/ IsNaN(d[2]) \/ IsNaN(S) \/ IsNaN(K) THEN NaN
             ELSE IF is_call
                  THEN TDiv(S * _norm_cdf(d[1]) - ((K * Disc(days)) \div 1000) * _norm_cdf(d[2]), 10000)
                  ELSE TDiv(((K * Disc(days)) \div 1000) * _norm_cdf(-d[2]) - S * _norm_cdf(-d[1]), 10000)

\* row.get("iv", 0.0): the chain of the data client has no "iv" column (None)
RowIv(row) == IF row.iv = None THEN 0 ELSE row.iv

\* _theo(row) inside robust_price_fields
_theo(row, is_call, S, days) ==
    bs_price_theo(S, ToNumeric(row.strike), PyMax(RowIv(row), SigmaFloor), days, is_call)

\* _mid_used(row): two-sided mid, else last, else theo, else max(b, a, 0.0)
_mid_used(bid, ask, last, theo) ==
    LET b == OrZero(bid)
        a == OrZero(ask)
        m == IF Gt(b, 0) /\ Gt(a, 0) THEN (b + a) \div 2 ELSE 0
        l == OrZero(last)
        t == OrZero(theo)
    IN  IF m > 0 THEN m
        ELSE IF Gt(l, 0) THEN l
        ELSE IF Gt(t, 0) THEN t
        ELSE PyMax(PyMax(b, a), 0)

\* _bid_used(row) and _ask_used(row): the quote, else last, else theo, else 0.0
_bid_used(bid, last, theo) ==
    IF Gt(OrZero(bid), 0) THEN OrZero(bid)
    ELSE IF Gt(OrZero(last), 0) THEN OrZero(last)
    ELSE IF Gt(OrZero(theo), 0) THEN OrZero(theo)
    ELSE 0

_ask_used(ask, last, theo) ==
    IF Gt(OrZero(ask), 0) THEN OrZero(ask)
    ELSE IF Gt(OrZero(last), 0) THEN OrZero(last)
    ELSE IF Gt(OrZero(theo), 0) THEN OrZero(theo)
    ELSE 0

\* robust_price_fields, one row of the returned table
RobustRow(row, is_call, S, days) ==
    LET bid   == ToNumeric(row.bid)
        ask   == ToNumeric(row.ask)
        last  == ToNumeric(row.last_price)
        theo  == _theo(row, is_call, S, days)
        diff  == FillNa0(ask) - FillNa0(bid)
    IN  [ strike |-> ToNumeric(row.strike), bid |-> bid, ask |-> ask, last |-> last,
          iv |-> row.iv,
          mid |-> (FillNa0(bid) + FillNa0(ask)) \div 2,
          spread |-> IF diff < 0 THEN 0 ELSE diff,
          theo |-> theo,
          mid_used |-> _mid_used(bid, ask, last, theo),
          bid_used |-> _bid_used(bid, last, theo),
          ask_used |-> _ask_used(ask, last, theo),
          volume |-> FillNa0(ToNumeric(row.volume)) ]

RECURSIVE robust_price_fields(_, _, _, _)
robust_price_fields(chain, is_call, S, days) ==
    IF chain = <<>> THEN <<>>
    ELSE <<RobustRow(Head(chain), is_call, S, days)>>
            \o robust_price_fields(Tail(chain), is_call, S, days)

\* (df["strike"] - k).abs().idxmin(): the first row at the least distance
NearestIdx(chain, k) ==
    CHOOSE i \in 1..Len(chain) :
        \A j \in 1..Len(chain) :
            \/ Abs(chain[i].strike - k) < Abs(chain[j].strike - k)
            \/ Abs(chain[i].strike - k) = Abs(chain[j].strike - k) /\ i <= j

nearest_strike(chain, k) == chain[NearestIdx(chain, k)].strike
row_at(chain, k) == chain[NearestIdx(chain, k)]
nearest_row(chain, target_strike) == chain[NearestIdx(chain, target_strike)]

\* Python max(...) and min(...) over four values
PyMax4(a, b, c, d) == PyMax(PyMax(PyMax(a, b), c), d)
PyMin(a, b) == IF Lt(b, a) THEN b ELSE a
PyMin4(a, b, c, d) == PyMin(PyMin(PyMin(a, b), c), d)

RECURSIVE Flatten(_)
Flatten(ss) == IF ss = <<>> THEN <<>> ELSE Head(ss) \o Flatten(Tail(ss))

\* items of the wing-width text between commas: a number, a blank item
\* (empty or whitespace) or an item that float() rejects
Blank == -444444
Junk == -333333

\* [float(x.strip()) for x in text.split(",") if x.strip() != ""]
ParseFails(wing_text) == \E i \in 1..Len(wing_text) : wing_text[i] = Junk
ParsedWings(wing_text) ==
    LET Keep(t) == t # Blank
    IN  SelectSeq(wing_text, Keep)

\* wing_list: the parsed text, or [3.0, 5.0, 10.0] when it is empty or unparsable
WingList(wing_text) ==
    LET wing_list == IF ParseFails(wing_text) THEN <<>> ELSE ParsedWings(wing_text)
    IN  IF wing_list = <<>> THEN <<30, 50, 100>> ELSE wing_list

\* mutant: structures that fail the per-leg liquidity check are removed too
Mut_CreditFilter_LegsOk(rows, min_credit) ==
    LET Keep(r) == FillNa0(r.credit) >= min_credit /\ r.legs_ok
    IN  SelectSeq(rows, Keep)

\* res[res["Credit"].fillna(0) >= float(min_credit)]
CreditFilter(rows, min_credit) ==
    LET Keep(r) == FillNa0(r.credit) >= min_credit
    IN  SelectSeq(rows, Keep)

\* ------------------------------------------------------------------------
\* Iron butterfly builder (app.py, the "iron_butterfly" branch)
\* ------------------------------------------------------------------------
\* lines 396-402 with the put-chain strike taken at equal distance too
Mut_ButterflyK_PutOnTie(call_df, put_df, target_k) ==
    LET K     == nearest_strike(call_df, target_k)
        K_put == nearest_strike(put_df, target_k)
    IN  IF Abs(K_put - target_k) <= Abs(K - target_k) THEN K_put ELSE K

\* lines 396-402: the short strike K
ButterflyK(call_df, put_df, target_k) ==
    LET K     == nearest_strike(call_df, target_k)
        K_put == nearest_strike(put_df, target_k)
    IN  IF Abs(K_put - target_k) < Abs(K - target_k) THEN K_put ELSE K

\* body of `for w in wing_list` (lines 417-470): <<row>>, or <<>> on `continue`
ButterflyRow(call_df, put_df, K, w, a) ==
    LET Ku     == nearest_strike(call_df, K + w)
        Kd     == nearest_strike(put_df, K - w)
        sc     == row_at(call_df, K)
        sp     == row_at(put_df, K)
        lc     == row_at(call_df, Ku)
        lp     == row_at(put_df, Kd)
        legs_ok == /\ Le(sc.spread, a.max_spread) /\ Le(sp.spread, a.max_spread)
                   /\ Le(lc.spread, a.max_spread) /\ Le(lp.spread, a.max_spread)
                   /\ sc.volume >= a.min_volume /\ sp.volume >= a.min_volume
                   /\ lc.volume >= a.min_volume /\ lp.volume >= a.min_volume
        credit == FSub(FSub(FAdd(sc.mid_used, sp.mid_used), lc.mid_used), lp.mid_used)
        width  == Abs(Ku - K)
    IN  IF IsNaN(credit) \/ width <= 0 \/ credit <= 0 THEN <<>>
        ELSE << [ DTE |-> a.days, short_call |-> K, short_put |-> K,
                  long_call |-> Ku, long_put |-> Kd,
                  credit |-> credit, W |-> w,
                  max_profit |-> credit,
                  max_loss |-> PyMax(width - credit, 0),
                  be_low |-> K - credit, be_high |-> K + credit,
                  max_leg_spread |-> PyMax4(sc.spread, sp.spread, lc.spread, lp.spread),
                  min_leg_volume |-> PyMin4(sc.volume, sp.volume, lc.volume, lp.volume),
                  legs_ok |-> legs_ok ] >>

\* all_rows_bt: the rows of every wing width, for the prepared chains
ButterflyRows(call_df, put_df, a) ==
    LET K         == ButterflyK(call_df, put_df, a.spot + a.allow_shift)
        wing_list == WingList(a.wing_text)
    IN  Flatten([n \in 1..Len(wing_list) |-> ButterflyRow(call_df, put_df, K, wing_list[n], a)])

\* the button handler, for one expiration; df becomes the prepared call_df and put_df
IronButterfly ==
    /\ pc = "ready"
    /\ impl = "iron_butterfly"
    /\ IF df.calls = <<>> \/ df.puts = <<>>
       THEN /\ df' = df
            /\ out' = <<>>
       ELSE \E call_df \in {robust_price_fields(df.calls, TRUE, args.spot, args.days)},
               put_df \in {robust_price_fields(df.puts, FALSE, args.spot, args.days)} :
                /\ df' = [calls |-> call_df, puts |-> put_df]
                /\ out' = CreditFilter(ButterflyRows(call_df, put_df, args), args.min_credit)
    /\ pc' = "returned"
    /\ UNCHANGED <<impl, args>>

\* ------------------------------------------------------------------------
\* Iron condor builder (app.py, the "iron_condor" branch)
\* ------------------------------------------------------------------------
\* add_delta: N(d1) for a call, 1 - N(d1) for a put, from calculations.bs_d1_d2
DeltaAbs(row, is_call, S, days) ==
    LET d == bs_d1_d2(S, row.strike, PyMax(RowIv(row), SigmaFloor), days)
    IN  IF IsNaN(d[1]) THEN NaN
        ELSE IF is_call THEN _norm_cdf(d[1]) ELSE 10000 - _norm_cdf(d[1])

RECURSIVE add_delta(_, _, _, _)
add_delta(chain, is_call, S, days) ==
    IF chain = <<>> THEN <<>>
    ELSE LET row == Head(chain)
         IN  << [ strike |-> row.strike, bid |-> row.bid, ask |-> row.ask, last |-> row.last,
                  iv |-> row.iv, mid |-> row.mid, spread |-> row.spread, theo |-> row.theo,
                  mid_used |-> row.mid_used, bid_used |-> row.bid_used,
                  ask_used |-> row.ask_used, volume |-> row.volume,
                  delta_abs |-> DeltaAbs(row, is_call, S, days) ] >>
                \o add_delta(Tail(chain), is_call, S, days)

\* cand["_price_for_sort"]
PriceForSort(r) == FillNa0(r.mid_used)

\* sort_values(["_price_for_sort", "strike"], ascending=[False, not strike_asc])
Mut_CandBefore_FarStrike(x, y, strike_asc) ==
    IF PriceForSort(x) # PriceForSort(y) THEN PriceForSort(x) > PriceForSort(y)
    ELSE IF strike_asc THEN x.strike > y.strike ELSE x.strike < y.strike

\* sort_values(["_price_for_sort", "strike"], ascending=[False, strike_asc])
CandBefore(x, y, strike_asc) ==
    IF PriceForSort(x) # PriceForSort(y) THEN PriceForSort(x) > PriceForSort(y)
    ELSE IF strike_asc THEN x.strike < y.strike ELSE x.strike > y.strike

RECURSIVE SortCands(_, _)
SortCands(R, strike_asc) ==
    IF R = {} THEN <<>>
    ELSE LET f == CHOOSE x \in R : \A y \in R \ {x} : CandBefore(x, y, strike_asc)
         IN  <<f>> \o SortCands(R \ {f}, strike_asc)

\* DataFrame.head(n)
HeadN(sq, n) == SubSeq(sq, 1, IF n < Len(sq) THEN n ELSE Len(sq))

_short_put_candidates(chain, top_k, S, lo, hi) ==
    LET otm  == {chain[i] : i \in {j \in 1..Len(chain) : chain[j].strike < S}}
        band == {r \in otm : Ge(r.delta_abs, lo) /\ Le(r.delta_abs, hi)}
        cand == IF band # {} THEN band ELSE otm
    IN  HeadN(SortCands(cand, FALSE), top_k)

_short_call_candidates(chain, top_k, S, lo, hi) ==
    LET otm  == {chain[i] : i \in {j \in 1..Len(chain) : chain[j].strike > S}}
        band == {r \in otm : Ge(r.delta_abs, lo) /\ Le(r.delta_abs, hi)}
        cand == IF band # {} THEN band ELSE otm
    IN  HeadN(SortCands(cand, TRUE), top_k)

\* lines 606-631: every (short put, short call) with put strike < call strike,
\* else the nearest pair around the spot
ComboPairs(put_df, call_df, put_cands, call_cands, S) ==
    LET all   == Flatten([i \in 1..Len(put_cands) |->
                             [j \in 1..Len(call_cands) |-> <<put_cands[i], call_cands[j]>>]])
        Shape(pr) == pr[1].strike < pr[2].strike
        pairs == SelectSeq(all, Shape)
        below == {put_df[i] : i \in {j \in 1..Len(put_df) : put_df[j].strike < S}}
        above == {call_df[i] : i \in {j \in 1..Len(call_df) : call_df[j].strike > S}}
    IN  IF pairs # <<>> THEN pairs
        ELSE IF below # {} /\ above # {}
             THEN << << CHOOSE x \in below : \A y \in below : x.strike >= y.strike,
                        CHOOSE x \in above : \A y \in above : x.strike <= y.strike >> >>
             ELSE <<>>

\* lines 646-670: keep both shorts out of the money and the put below the call
SanePair(put_df, call_df, pr, S) ==
    LET below == {put_df[i] : i \in {j \in 1..Len(put_df) : put_df[j].strike < S}}
        above == {call_df[i] : i \in {j \in 1..Len(call_df) : call_df[j].strike > S}}
        sp    == IF pr[1].strike >= S /\ below # {}
                 THEN CHOOSE x \in below : \A y \in below : x.strike >= y.strike
                 ELSE pr[1]
        sc0   == IF pr[2].strike <= S /\ above # {}
                 THEN CHOOSE x \in above : \A y \in above : x.strike <= y.strike
                 ELSE pr[2]
        ks    == {call_df[i].strike : i \in 1..Len(call_df)}
        gaps  == {y - x : <<x, y>> \in {q \in ks \X ks : q[1] < q[2]}}
        step  == IF Cardinality(ks) >= 2 THEN CHOOSE g \in gaps : \A h \in gaps : g <= h ELSE 10
        sc    == IF sp.strike >= sc0.strike THEN nearest_row(call_df, sp.strike + step) ELSE sc0
    IN  <<sp, sc>>

\* body of `for w in wing_list_ic` (lines 673-717): <<row>>, or <<>> on `continue`
CondorRow(call_df, put_df, sp, sc, w, a) ==
    LET lp     == nearest_row(put_df, sp.strike - w)
        lc     == nearest_row(call_df, sc.strike + w)
        legs_ok == /\ Le(sp.spread, a.max_spread) /\ Le(lp.spread, a.max_spread)
                   /\ Le(sc.spread, a.max_spread) /\ Le(lc.spread, a.max_spread)
                   /\ sp.volume >= a.min_volume /\ lp.volume >= a.min_volume
                   /\ sc.volume >= a.min_volume /\ lc.volume >= a.min_volume
        credit == FSub(FAdd(FSub(sp.mid_used, lp.mid_used), sc.mid_used), lc.mid_used)
        width  == w
    IN  IF IsNaN(credit) \/ width <= 0 \/ credit <= 0 THEN <<>>
        ELSE << [ DTE |-> a.days, short_put |-> sp.strike, long_put |-> lp.strike,
                  short_call |-> sc.strike, long_call |-> lc.strike,
                  credit |-> credit, W |-> w,
                  max_profit |-> credit,
                  max_loss |-> PyMax(width - credit, 0),
                  be_low |-> sp.strike - credit, be_high |-> sc.strike + credit,
                  max_leg_spread |-> PyMax4(sp.spread, lp.spread, sc.spread, lc.spread),
                  min_leg_volume |-> PyMin4(sp.volume, lp.volume, sc.volume, lc.volume),
                  legs_ok |-> legs_ok ] >>

\* all_rows_ic: the rows of every pair of shorts and every wing width
CondorRows(call_df, put_df, combo, a) ==
    LET wing_list == WingList(a.wing_text)
    IN  Flatten([n \in 1..Len(combo) |->
            LET pr == SanePair(put_df, call_df, combo[n], a.spot)
            IN  Flatten([m \in 1..Len(wing_list) |->
                   CondorRow(call_df, put_df, pr[1], pr[2], wing_list[m], a)])])

\* combo_pairs of the prepared chains
CondorCombo(call_df, put_df, a) ==
    ComboPairs(put_df, call_df,
               _short_put_candidates(put_df, a.top_k, a.spot, a.short_delta_low, a.short_delta_high),
               _short_call_candidates(call_df, a.top_k, a.spot, a.short_delta_low, a.short_delta_high),
               a.spot)

\* the button handler, for one expiration; df becomes the prepared call_df and put_df
IronCondor ==
    /\ pc = "ready"
    /\ impl = "iron_condor"
    /\ IF df.calls = <<>> \/ df.puts = <<>>
       THEN /\ df' = df
            /\ out' = <<>>
       ELSE \E call_df \in {add_delta(robust_price_fields(df.calls, TRUE, args.spot, args.days),
                                         TRUE, args.spot, args.days)},
               put_df \in {add_delta(robust_price_fields(df.puts, FALSE, args.spot, args.days),
                                        FALSE, args.spot, args.days)} :
            \E combo \in {CondorCombo(call_df, put_df, args)} :
                /\ df' = [calls |-> call_df, puts |-> put_df]
                /\ out' = CreditFilter(CondorRows(call_df, put_df, combo, args), args.min_credit)
    /\ pc' = "returned"
    /\ UNCHANGED <<impl, args>>

\* ------------------------------------------------------------------------
\* Iron condor page (pages/iron_condor.py, render)
\* ------------------------------------------------------------------------
\* robust_price_fields of the page: mid and spread only
RECURSIVE page_robust_price_fields(_)
page_robust_price_fields(chain) ==
    IF chain = <<>> THEN <<>>
    ELSE LET row == Head(chain)
             bid == ToNumeric(row.bid)
             ask == ToNumeric(row.ask)
             diff == FillNa0(ask) - FillNa0(bid)
         IN  << [ strike |-> ToNumeric(row.strike), bid |-> bid, ask |-> ask,
                  last_price |-> row.last_price, iv |-> row.iv,
                  mid |-> (FillNa0(bid) + FillNa0(ask)) \div 2,
                  spread |-> IF diff < 0 THEN 0 ELSE diff,
                  volume |-> ToNumeric(row.volume) ] >>
                \o page_robust_price_fields(Tail(chain))

\* lines 58-61: the parsed text, [5.0] when float() raises
PageWingList(wing_text) ==
    IF ParseFails(wing_text) THEN <<50>> ELSE ParsedWings(wing_text)

\* .iloc[-1] and .iloc[0] of an empty selection raise IndexError
NoneBelow(chain, S) == \A i \in 1..Len(chain) : ~(chain[i].strike < S)
NoneAbove(chain, S) == \A i \in 1..Len(chain) : ~(chain[i].strike > S)

\* put_df.loc[strike < spot].iloc[-1] and call_df.loc[strike > spot].iloc[0]
LastBelow(chain, S) ==
    chain[CHOOSE i \in 1..Len(chain) :
             chain[i].strike < S /\ \A j \in (i + 1)..Len(chain) : ~(chain[j].strike < S)]
FirstAbove(chain, S) ==
    chain[CHOOSE i \in 1..Len(chain) :
             chain[i].strike > S /\ \A j \in 1..(i - 1) : ~(chain[j].strike > S)]

\* body of `for w in wing_list` (lines 63-86): <<row>>, or <<>> on `continue`
PageCondorRow(call_df, put_df, sp, sc, w, a) ==
    LET lp     == nearest_row(put_df, sp.strike - w)
        lc     == nearest_row(call_df, sc.strike + w)
        credit == FSub(FAdd(FSub(sp.mid, lp.mid), sc.mid), lc.mid)
    IN  IF credit <= 0 THEN <<>>
        ELSE << [ DTE |-> a.days, short_put |-> sp.strike, long_put |-> lp.strike,
                  short_call |-> sc.strike, long_call |-> lc.strike,
                  credit |-> credit, W |-> w,
                  be_low |-> sp.strike - credit, be_high |-> sc.strike + credit ] >>

\* all_rows_ic of the page
PageCondorRows(call_df, put_df, a) ==
    LET sp        == LastBelow(put_df, a.spot)
        sc        == FirstAbove(call_df, a.spot)
        wing_list == PageWingList(a.wing_text)
    IN  Flatten([n \in 1..Len(wing_list) |-> PageCondorRow(call_df, put_df, sp, sc, wing_list[n], a)])

\* the button handler of the page, for one expiration
PageIronCondor ==
    /\ pc = "ready"
    /\ impl = "page_iron_condor"
    /\ IF df.calls = <<>> \/ df.puts = <<>>
       THEN /\ df' = df
            /\ out' = <<>>
            /\ pc' = "returned"
       ELSE \E call_df \in {page_robust_price_fields(df.calls)},
               put_df \in {page_robust_price_fields(df.puts)} :
                /\ df' = [calls |-> call_df, puts |-> put_df]
                /\ IF NoneBelow(put_df, args.spot) \/ NoneAbove(call_df, args.spot)
                   THEN /\ out' = <<>>
                        /\ pc' = "raised_index"
                   ELSE /\ out' = CreditFilter(PageCondorRows(call_df, put_df, args), args.min_credit)
                        /\ pc' = "returned"
    /\ UNCHANGED <<impl, args>>

\* ------------------------------------------------------------------------
\* Inputs of the builders
\* ------------------------------------------------------------------------
\* quotes of one contract as the data client returns them: a two-sided
\* market, a richer two-sided market, an ask without a bid, nothing at all
LegQuotes ==
    { [bid |-> 10, ask |-> 12, last_price |-> NaN, volume |-> 500],
      [bid |-> 30, ask |-> 32, last_price |-> 31, volume |-> 800],
      [bid |-> 0, ask |-> 12, last_price |-> 0, volume |-> 0],
      [bid |-> NaN, ask |-> NaN, last_price |-> NaN, volume |-> NaN] }

Leg(strike, q, iv) ==
    [strike |-> strike, bid |-> q.bid, ask |-> q.ask, last_price |-> q.last_price,
     volume |-> q.volume, iv |-> iv]

PlainQuote == [bid |-> 10, ask |-> 12, last_price |-> NaN, volume |-> 500]

\* the in-the-money and the far strikes carry the plain two-sided market;
\* the two call strikes next to the spot carry any of the quotes, the two
\* put strikes next to the spot carry one of the quotes
CallChains(iv) ==
    { << Leg(950, PlainQuote, iv), Leg(1000, q[1], iv), Leg(1050, q[2], iv),
         Leg(1100, PlainQuote, iv) >> :
      q \in LegQuotes \X LegQuotes }

PutChains(iv) ==
    { << Leg(900, PlainQuote, iv), Leg(950, q, iv), Leg(1000, q, iv),
         Leg(1050, PlainQuote, iv) >> :
      q \in LegQuotes }

\* a chain with an "iv" column (0.30 on every row) or without one
BuilderChains ==
    UNION { { [calls |-> c, puts |-> p] : c \in CallChains(iv), p \in PutChains(iv) } :
            iv \in {None, 300000} }
      \cup { [calls |-> <<>>, puts |-> p] : p \in PutChains(None) }

\* wing widths a user can type: -$5, $0, $5
WingValues == {-50, 0, 50}

\* texts of up to MaxWings items: numbers only, or numbers followed by a
\* blank item or by an item that is not a number
WingTexts ==
    UNION { [1..n -> WingValues] : n \in 1..MaxWings }
      \cup { w \o <<t>> : w \in UNION { [1..n -> WingValues] : n \in 0..(MaxWings - 1) },
                          t \in {Blank, Junk} }

\* widget defaults of the two pages; the minimum credit is 0 or $0.20
BuilderArgs(mode) ==
    { [ spot |-> s, allow_shift |-> 0, days |-> 30, wing_text |-> wt, min_credit |-> mc,
        max_spread |-> IF mode = "iron_butterfly" THEN 5 ELSE 3,
        min_volume |-> IF mode = "iron_butterfly" THEN 0 ELSE 100,
        short_delta_low |-> 1000, short_delta_high |-> 3500, top_k |-> 3 ] :
      s \in {1000, 1030}, wt \in WingTexts, mc \in {0, 2} }
      \cup
    \* one wing: a spot below or above every listed strike of one side,
    \* fewer short-leg candidates per side, a spot at a strike that only the
    \* put chain lists with a $10 wing, a spot halfway between a put strike
    \* and the lowest call strike
    { [ spot |-> st[1], allow_shift |-> 0, days |-> 30, wing_text |-> <<st[3]>>, min_credit |-> 0,
        max_spread |-> IF mode = "iron_butterfly" THEN 5 ELSE 3,
        min_volume |-> IF mode = "iron_butterfly" THEN 0 ELSE 100,
        short_delta_low |-> 1000, short_delta_high |-> 3500, top_k |-> st[2] ] :
      st \in {<<850, 3, 50>>, <<1200, 3, 50>>, <<1000, 1, 50>>, <<1030, 1, 50>>,
               <<1030, 2, 50>>, <<900, 3, 100>>, <<925, 3, 50>>} }

InitBuilder ==
    /\ pc = "ready"
    /\ out = <<>>
    /\ impl \in {"iron_butterfly", "iron_condor", "page_iron_condor"}
    /\ df \in BuilderChains
    /\ args \in BuilderArgs(impl)

NextBuilder == IronButterfly \/ IronCondor \/ PageIronCondor

SpecBuilder == InitBuilder /\ [][NextBuilder]_vars

\* ------------------------------------------------------------------------
\* The numeric functions called on their own (calculations.py, checklist.py)
\* ------------------------------------------------------------------------
\* one call of the return functions of both modules on the same arguments
Returns ==
    /\ pc = "ready"
    /\ impl = "returns"
    /\ out' = [ single      |-> _single_return(args.premium, args.capital),
                annual      |-> _annualized_return(args.premium, args.capital, args.days),
                calc_single |-> single_return(args.premium, args.capital, Multiplier),
                calc_annual |-> annualized_return(args.premium, args.capital, args.days, Multiplier) ]
    /\ pc' = "returned"
    /\ UNCHANGED <<impl, df, args>>

\* one call of every Black-Scholes function of both modules on the same arguments
Greeks ==
    /\ pc = "ready"
    /\ impl = "greeks"
    /\ out' = [ d1d2          |-> _bs_d1_d2(args.S, args.K, args.sigma, args.days),
                put_delta     |-> _put_delta(args.S, args.K, args.sigma, args.days),
                call_delta    |-> _call_delta(args.S, args.K, args.sigma, args.days),
                itm_put       |-> _itm_probability_put(args.S, args.K, args.sigma, args.days),
                itm_call      |-> _itm_probability_call(args.S, args.K, args.sigma, args.days),
                calc_d1d2     |-> bs_d1_d2(args.S, args.K, args.sigma, args.days),
                calc_put_delta |-> put_delta(args.S, args.K, args.sigma, args.days),
                calc_itm      |-> itm_probability(args.S, args.K, args.sigma, args.days) ]
    /\ pc' = "returned"
    /\ UNCHANGED <<impl, df, args>>

\* spot and strike around $100 and degenerate, volatility 0.20 and 0.30 and
\* degenerate, T of 0 days, 1 day and the expirations of the evaluator
GreekArgs ==
    [ S : {NaN, -1000, 0, 1000}, K : {-950, 0, 950, 1000, 1050},
      sigma : {-200000, 0, 200000, 300000},
      days : {0, 1} \cup {30 * i : i \in 1..MaxOffset} ]

\* premium: missing, NaN, 0, $1.00, $1.10; capital: NaN, negative, 0, $9500,
\* $9400; days: negative, 0, 1 and the expirations of the evaluator
ReturnArgs ==
    [ premium : {None, NaN, 0, 10, 11},
      capital : {NaN, -95000, 0, 95000, 94000},
      days    : {-1, 0, 1} \cup {30 * i : i \in 1..MaxOffset} ]

InitMath ==
    /\ pc = "ready"
    /\ out = <<>>
    /\ df = <<>>
    /\ \/ impl = "returns" /\ args \in ReturnArgs
       \/ impl = "greeks" /\ args \in GreekArgs

NextMath == Returns \/ Greeks

SpecMath == InitMath /\ [][NextMath]_vars

\* ------------------------------------------------------------------------
\* _implied_vol_from_price, one loop iteration at a time (checklist.py)
\* ------------------------------------------------------------------------
\* lines 95-111: the guards and the expansion of the bracket
IvStart ==
    /\ pc = "ready"
    /\ impl = "implied_vol"
    /\ \E b \in {IvBracket(args.target, args.S, args.K, args.days, args.kind)} :
          IF b = <<>>
          THEN /\ out' = [lo |-> IvLo, hi |-> IvHi, n |-> 0, sigma |-> NaN]
               /\ pc' = "returned"
          ELSE /\ out' = [lo |-> b[1], hi |-> b[2], n |-> 0, sigma |-> NaN]
               /\ pc' = "bisect"
    /\ UNCHANGED <<impl, df, args>>

\* lines 112-123: one iteration of `for _ in range(max_iter)`, or the
\* return after the last one
IvStep ==
    /\ pc = "bisect"
    /\ impl = "implied_vol"
    /\ IF out.n = IvMaxIter
       THEN /\ out' = [out EXCEPT !.sigma = IvMid(out.lo, out.hi)]
            /\ pc' = "returned"
       ELSE \E mid \in {IvMid(out.lo, out.hi)} :
            \E pm \in {IvPrice(args.S, args.K, mid, args.days, args.kind)} :
               IF IsNaN(pm)
               THEN /\ out' = [out EXCEPT !.sigma = NaN]
                    /\ pc' = "returned"
               ELSE IF Abs(pm - args.target) < IvTol
               THEN /\ out' = [out EXCEPT !.sigma = mid]
                    /\ pc' = "returned"
               ELSE IF pm < args.target
               THEN /\ out' = [out EXCEPT !.lo = mid, !.n = out.n + 1]
                    /\ pc' = "bisect"
               ELSE /\ out' = [out EXCEPT !.hi = mid, !.n = out.n + 1]
                    /\ pc' = "bisect"
    /\ UNCHANGED <<impl, df, args>>

\* the price of a put or call under sigma = 0.30, prices no sigma reaches,
\* and targets the guard rejects
IvArgs ==
    UNION { [ target : {None, NaN, 0, 1, 20000,
                        IvPrice(1000, k, 300000, d, kind)},
              S : {0, 1000}, K : {k}, days : {d}, kind : {kind} ] :
            k \in {950, 1000, 1050}, d \in {30 * i : i \in 1..MaxOffset}, kind \in {"put", "call"} }
      \cup [ target : {30}, S : {-1000, 1000}, K : {-950, 0, 950}, days : {0, 30},
             kind : {"put", "call"} ]

InitIv ==
    /\ pc = "ready"
    /\ out = <<>>
    /\ df = <<>>
    /\ impl = "implied_vol"
    /\ args \in IvArgs

NextIv == IvStart \/ IvStep

\* the loop is straight-line code: an iteration that can run does run
SpecIv == InitIv /\ [][NextIv]_vars /\ WF_vars(NextIv)

\* the inversion together with its caller: evaluate_chain_df on one-row
\* chains of puts expiring in 30 days, with any spot
InitBackfill ==
    \/ InitIv
    \/ /\ pc = "ready"
       /\ out = <<>>
       /\ impl = "checklist"
       /\ df \in Chains(RawRows)
       /\ args \in {MkArgs(s, <<"put", "strike">>, <<Today + 30, 30>>,
                            [delta_high |-> 3500, iv_min |-> 0, iv_max |-> 10000000,
                             max_spread |-> 1, min_volume |-> 0, min_annual |-> 1000]) : s \in Spots}

NextBackfill == IvStart \/ IvStep \/ Evaluate

SpecBackfill == InitBackfill /\ [][NextBackfill]_vars

\* ------------------------------------------------------------------------
\* Properties of the single-leg evaluators
\* ------------------------------------------------------------------------
\* a quote that counts: present and strictly positive
Pos(x) == x # None /\ Gt(x, 0)

\* the priority table of price resolution
ResolvedPrice(bid, ask, last) ==
    IF Pos(bid) /\ Pos(ask) THEN <<(bid + ask) \div 2, "B/A">>
    ELSE IF Pos(bid) THEN <<bid, "Bid">>
    ELSE IF Pos(ask) THEN <<ask, "Ask">>
    ELSE IF Pos(last) THEN <<last, "LAST">>
    ELSE <<NaN, "UNKNOWN">>

\* C1: price resolution returns (average, B/A) when bid and ask are both
\* positive, (bid, Bid) when only bid is, (ask, Ask) when only ask is,
\* (last, LAST) when neither is and last is positive, and (NaN, UNKNOWN)
\* otherwise, a missing or zero value counting as no quote.
C1_PriceResolution ==
    pc = "returned" =>
        \A i \in 1..Len(out) :
            LET e == out[i]
            IN  IF impl = "checklist"
                THEN <<e.l_mid, e.l_src>> = ResolvedPrice(e.bid, e.ask, e.last_price)
                ELSE <<e.mid, e.price_source>> = ResolvedPrice(e.bid, e.ask, e.last_price)

\* C2: a row whose spread is unknown (bid and ask not both positive) has
\* ok_spread = TRUE for every max_spread; a row whose spread is defined has
\* ok_spread = (spread <= max_spread).
C2_UnknownSpreadPasses ==
    pc = "returned" =>
        \A i \in 1..Len(out) :
            LET e == out[i]
            IN  IF Pos(e.bid) /\ Pos(e.ask)
                THEN e.ok_spread = (PyMax(0, e.ask - e.bid) <= args.max_spread)
                ELSE e.ok_spread

\* C3: criteria fail closed: an undefined Delta gives ok_delta = FALSE, an
\* undefined implied volatility (not quoted positive and not recovered by
\* inversion) gives ok_iv = FALSE, and then ok_all = FALSE; ok_spread is the
\* only criterion that is TRUE on an undefined value.
C3_FailClosed ==
    (pc = "returned" /\ impl = "checklist") =>
        \A i \in 1..Len(out) :
            LET e == out[i]
            IN  /\ IsNaN(e.delta) => ~e.ok_delta
                /\ IsNaN(e.iv) => ~e.ok_iv
                /\ (IsNaN(e.delta) \/ IsNaN(e.iv)) => ~e.ok_all
                /\ IsNaN(e.iv) <=> (IsNaN(e.l_iv_quote) /\ ~e.l_inverted)
                /\ IsNaN(e.spread) => e.ok_spread
                /\ ~IsNaN(e.volume) /\ ~IsNaN(e.annualized_return)

C3_Witness ==
    /\ pc = "returned" /\ impl = "checklist"
    /\ \E i \in 1..Len(out) :
          /\ IsNaN(out[i].delta) /\ IsNaN(out[i].iv) /\ IsNaN(out[i].spread)
          /\ out[i].ok_spread /\ out[i].ok_volume /\ out[i].ok_annual
          /\ ~out[i].ok_delta /\ ~out[i].ok_iv /\ ~out[i].ok_all

TheoPrice(e) ==
    IvPrice(OrZero(args.spot), e.strike,
            IF Gt(e.l_iv_quote, 0) THEN e.l_iv_quote ELSE 400000, e.days_to_exp, e.kind)

\* C6: a row is THEO exactly when bid, ask and last are all non-positive and
\* the theoretical price is positive, and then mid is that price;
\* price_source is one of the six tags and mid is NaN iff it is UNKNOWN,
\* i.e. iff bid, ask, last and theoretical price are all absent or non-positive.
C6_TheoProvenance ==
    (pc = "returned" /\ impl = "checklist") =>
        \A i \in 1..Len(out) :
            LET e   == out[i]
                t   == TheoPrice(e)
                noq == ~Pos(e.bid) /\ ~Pos(e.ask) /\ ~Pos(e.last_price)
            IN  /\ (e.price_source = "THEO") <=> (noq /\ Gt(t, 0))
                /\ (e.price_source = "THEO") => e.mid = t
                /\ e.price_source \in {"B/A", "Bid", "Ask", "LAST", "THEO", "UNKNOWN"}
                /\ IsNaN(e.mid) <=> (e.price_source = "UNKNOWN")
                /\ (e.price_source = "UNKNOWN") <=> (noq /\ ~Gt(t, 0))

\* a row with strike <= 0, or evaluated with spot <= 0
Degenerate(e) == Le(e.strike, 0) \/ Le(OrZero(args.spot), 0)

\* C8 (as claimed): a row with strike <= 0 or spot <= 0 has undefined Delta
\* and ITM probability and fails both the Delta and the IV criterion, so
\* ok_all = FALSE, whatever implied volatility the quote carries.
C8_DegenerateFailsDeltaAndIv ==
    (pc = "returned" /\ impl = "checklist") =>
        \A i \in 1..Len(out) :
            Degenerate(out[i]) =>
                /\ IsNaN(out[i].delta) /\ IsNaN(out[i].itm_prob)
                /\ ~out[i].ok_delta /\ ~out[i].ok_iv /\ ~out[i].ok_all

\* C8 (amended): such a row has undefined Delta and ITM probability, fails
\* the Delta criterion and so ok_all; its implied volatility is never
\* inverted, so ok_iv is decided by the quoted volatility alone.
C8_DegenerateFailsDelta ==
    (pc = "returned" /\ impl = "checklist") =>
        \A i \in 1..Len(out) :
            LET e == out[i]
            IN  Degenerate(e) =>
                    /\ IsNaN(e.delta) /\ IsNaN(e.itm_prob)
                    /\ ~e.ok_delta /\ ~e.ok_all
                    /\ ~e.l_inverted /\ e.iv = e.l_iv_quote
                    /\ e.ok_iv = (Ge(e.l_iv_quote, args.iv_min) /\ Le(e.l_iv_quote, args.iv_max))

C8_Witness ==
    /\ pc = "returned" /\ impl = "checklist"
    /\ \E i \in 1..Len(out) :
          /\ Degenerate(out[i]) /\ out[i].premium > 0
          /\ out[i].ok_iv /\ ~out[i].ok_delta /\ ~out[i].ok_all

\* the day count the expiration argument stands for
ExpectedDays ==
    IF args.expiration = BadDate
    THEN (IF args.default_days_if_unknown < 1 THEN 1 ELSE args.default_days_if_unknown)
    ELSE IF args.expiration <= Today THEN 1
    ELSE args.expiration - Today

\* C9: every evaluated row has days_to_exp >= 1: 1 for an expiration today or
\* in the past, the calendar difference for a future one, and the default
\* day count floored at 1 for an expiration that cannot be parsed.
C9_DaysToExp ==
    /\ pc # "raised_date"
    /\ pc = "returned" =>
          \A i \in 1..Len(out) :
              out[i].days_to_exp = ExpectedDays /\ out[i].days_to_exp >= 1

\* C10 (as claimed): capital is strike*100 for a put in strike mode,
\* (strike - premium)*100 floored at 0 in net mode, spot*100 for a call, and
\* is >= 0 in every row.
C10_CapitalAsClaimed ==
    (pc = "returned" /\ impl = "checklist") =>
        \A i \in 1..Len(out) :
            LET e == out[i]
                S == OrZero(args.spot)
            IN  /\ e.margin_cash_secured >= 0
                /\ (e.kind = "put" /\ args.put_capital_mode = "strike")
                      => e.margin_cash_secured = e.strike * 100
                /\ (e.kind = "put" /\ args.put_capital_mode = "net")
                      => e.margin_cash_secured =
                            (IF e.strike - e.premium < 0 THEN 0 ELSE (e.strike - e.premium) * 100)
                /\ (e.kind = "call" /\ ~IsNaN(S)) => e.margin_cash_secured = S * 100

\* C10 (amended): capital is strike*100, (strike - premium)*100 or spot*100
\* as above, floored at 0 in all three cases (0 for a missing spot), so it
\* is >= 0 in every row; calculations.cash_secured_margin is the net formula.
C10_CapitalFloored ==
    (pc = "returned" /\ impl = "checklist") =>
        \A i \in 1..Len(out) :
            LET e == out[i]
                S == OrZero(args.spot)
            IN  /\ e.margin_cash_secured >= 0
                /\ (e.kind = "put" /\ args.put_capital_mode = "strike")
                      => e.margin_cash_secured = (IF e.strike < 0 THEN 0 ELSE e.strike * 100)
                /\ (e.kind = "put" /\ args.put_capital_mode = "net")
                      => /\ e.margin_cash_secured =
                               (IF e.strike - e.premium < 0 THEN 0 ELSE (e.strike - e.premium) * 100)
                         /\ e.margin_cash_secured = cash_secured_margin(e.strike, e.premium, 100)
                /\ e.kind = "call"
                      => e.margin_cash_secured = (IF IsNaN(S) \/ S < 0 THEN 0 ELSE S * 100)
                /\ cash_secured_margin(1000, 25, 100) = 97500

C10_Witness ==
    /\ pc = "returned" /\ impl = "checklist"
    /\ \E i \in 1..Len(out) :
          /\ out[i].kind = "put" /\ args.put_capital_mode = "net"
          /\ out[i].premium > out[i].strike
          /\ out[i].margin_cash_secured = 0


\* the rows of the table before it is sorted, in chain order
EvaluatedRows ==
    LET days_to_exp == DaysToExp(args.expiration, args.default_days_if_unknown)
        eff_kind    == EffKind(args.kind, df)
    IN  [i \in 1..Len(df) |-> AddFlags(EvalRow(df[i], args, days_to_exp, eff_kind), args)]

\* how often the row x occurs in the table t
Count(t, x) == Cardinality({i \in 1..Len(t) : t[i] = x})

\* x may stand before y under (ok_all desc, annualized_return desc,
\* volume desc, spread asc with an unknown spread last)
MayPrecede(x, y) ==
    \/ x.ok_all /\ ~y.ok_all
    \/ /\ x.ok_all = y.ok_all
       /\ \/ x.annualized_return > y.annualized_return
          \/ /\ x.annualized_return = y.annualized_return
             /\ \/ x.volume > y.volume
                \/ /\ x.volume = y.volume
                   /\ \/ IsNaN(y.spread)
                      \/ ~IsNaN(x.spread) /\ x.spread <= y.spread

\* C12: the returned table is ordered by (ok_all desc, annualized_return
\* desc, volume desc, spread asc): passing rows precede failing rows, an
\* unknown spread comes after a defined one among rows equal on the first
\* three keys, and the table is a permutation of the evaluated rows.
C12_SortedPermutation ==
    (pc = "returned" /\ impl = "checklist") =>
        /\ \A i, j \in 1..Len(out) :
              i < j => /\ MayPrecede(out[i], out[j])
                       /\ out[j].ok_all => out[i].ok_all
                       /\ (/\ out[i].ok_all = out[j].ok_all
                           /\ out[i].annualized_return = out[j].annualized_return
                           /\ out[i].volume = out[j].volume
                           /\ IsNaN(out[i].spread)) => IsNaN(out[j].spread)
        /\ Len(out) = Len(df)
        /\ \A i \in 1..Len(df) : Count(out, EvaluatedRows[i]) = Count(EvaluatedRows, EvaluatedRows[i])

\* a chain whose first row fails and has an unknown spread, whose later rows
\* pass, one of them tying with another row on the first three keys
C12_Witness ==
    /\ pc = "returned" /\ impl = "checklist" /\ Len(df) >= 3
    /\ out # EvaluatedRows
    /\ ~EvaluatedRows[1].ok_all /\ out[1].ok_all /\ ~out[Len(out)].ok_all
    /\ \E i, j \in 1..Len(out) :
          /\ i < j /\ out[i].ok_all = out[j].ok_all
          /\ out[i].annualized_return = out[j].annualized_return
          /\ out[i].volume = out[j].volume
          /\ ~IsNaN(out[i].spread) /\ IsNaN(out[j].spread)


\* C19: evaluate_chain_df returns exactly one evaluated row per input contract
\* row, whatever the fields of the rows: every call on a chain returns, the
\* table is as long as the chain and is a permutation of the per-row
\* evaluations, and a chain with no rows yields an empty table.
C19_OneRowPerContract ==
    (impl = "checklist" /\ pc # "ready") =>
        /\ pc = "returned"
        /\ Len(out) = Len(df)
        /\ df = <<>> => out = <<>>
        /\ \A i \in 1..Len(df) : Count(out, EvaluatedRows[i]) = Count(EvaluatedRows, EvaluatedRows[i])

\* the same for the chains in which every row has a volume
C19_OneRowPerCountedContract ==
    (impl = "checklist" /\ pc # "ready" /\ \A i \in 1..Len(df) : ~VolumeRaises(df[i])) =>
        /\ pc = "returned"
        /\ Len(out) = Len(df)
        /\ df = <<>> => out = <<>>
        /\ \A i \in 1..Len(df) : Count(out, EvaluatedRows[i]) = Count(EvaluatedRows, EvaluatedRows[i])


\* C21: an evaluation run treats its input chain as immutable: when
\* evaluate_chain_df returns, the caller's table has the same columns and
\* the same values as before the call.
C21_InputUnchanged ==
    [][(pc = "ready" /\ pc' = "returned") => df' = df]_vars

\* the same for the evaluator of checklist.py alone
C21_ChecklistInputUnchanged ==
    [][(impl = "checklist" /\ pc = "ready") => df' = df]_vars


\* C30: in every evaluated row the assignment-probability estimate equals
\* |Delta| (the filter Delta) when Delta is defined and non-zero, and the
\* probability-of-ITM estimate otherwise (Delta undefined or exactly 0).
C30_AssignProb ==
    (impl = "checklist" /\ pc = "returned") =>
        \A n \in 1..Len(out) :
            IF ~IsNaN(out[n].delta) /\ out[n].delta # 0
            THEN out[n].assign_prob_est = Abs(out[n].delta)
            ELSE out[n].assign_prob_est = out[n].itm_prob

\* a put whose Delta is defined, non-zero and differs from its ITM probability
C30_Witness ==
    /\ impl = "checklist" /\ pc = "returned" /\ Len(out) = 1
    /\ out[1].kind = "put"
    /\ ~IsNaN(out[1].delta) /\ out[1].delta > 0
    /\ ~IsNaN(out[1].itm_prob) /\ out[1].itm_prob # out[1].delta
    /\ out[1].assign_prob_est = out[1].delta

\* ------------------------------------------------------------------------
\* Properties of the multi-leg builders
\* ------------------------------------------------------------------------
\* C5: no iron butterfly or iron condor with net credit <= 0, non-finite net
\* credit or wing width <= 0 appears in the builder's output, whatever the
\* chain, the wing-width list and the minimum credit.
C5_NoDegenerateStructure ==
    (pc = "returned" /\ impl \in {"iron_butterfly", "iron_condor"}) =>
        \A i \in 1..Len(out) :
            /\ ~IsNaN(out[i].credit) /\ out[i].credit > 0
            /\ out[i].W > 0

\* the legs of both chains once robust_price_fields has prepared them
PreparedLegs ==
    IF pc # "returned" \/ df.calls = <<>> \/ df.puts = <<>> THEN {}
    ELSE {df.calls[i] : i \in 1..Len(df.calls)} \cup {df.puts[i] : i \in 1..Len(df.puts)}

\* C7: the spread of a prepared leg is defined only when bid and ask are
\* both strictly positive, and is then max(ask - bid, 0); otherwise it is
\* the unknown value, never the number 0.
C7_SpreadUnknownUnlessTwoSided ==
    (pc = "returned" /\ impl \in {"iron_butterfly", "iron_condor"}) =>
        \A leg \in PreparedLegs :
            IF Pos(leg.bid) /\ Pos(leg.ask)
            THEN leg.spread = PyMax(0, leg.ask - leg.bid)
            ELSE IsNaN(leg.spread)

\* the premium (mid_used) of the prepared leg at strike k
LegPremium(chain, k) == chain[CHOOSE i \in 1..Len(chain) : chain[i].strike = k].mid_used

\* C13: every emitted structure has max profit = net credit, max loss =
\* max(W - credit, 0) >= 0 with W the wing width of the list, breakeven low =
\* short put strike - credit < breakeven high = short call strike + credit,
\* and net credit = (short put + short call) - (long put + long call) premium.
C13_PayoffFields ==
    (pc = "returned" /\ impl \in {"iron_butterfly", "iron_condor"}) =>
        \A i \in 1..Len(out) :
            LET e == out[i]
            IN  /\ e.max_profit = e.credit
                /\ e.max_loss = (IF e.W - e.credit > 0 THEN e.W - e.credit ELSE 0)
                /\ e.max_loss >= 0
                /\ e.be_low = e.short_put - e.credit
                /\ e.be_high = e.short_call + e.credit
                /\ e.be_low < e.be_high
                /\ e.credit = (LegPremium(df.puts, e.short_put) + LegPremium(df.calls, e.short_call))
                                - (LegPremium(df.puts, e.long_put) + LegPremium(df.calls, e.long_call))

\* a structure without its liquidity flag
Strip(row) == [f \in (DOMAIN row) \ {"legs_ok"} |-> row[f]]
StripAll(rows) == [i \in 1..Len(rows) |-> Strip(rows[i])]

\* other choices of the per-leg spread limit ($0, $10) and volume minimum
LiquidityChoices == {0, 100} \X {0, 1000}

\* the rows the builder constructs from the prepared chains under the
\* liquidity limits c, before the credit filter
ConstructedRows(c) ==
    LET a == [args EXCEPT !.max_spread = c[1], !.min_volume = c[2]]
    IN  IF impl = "iron_butterfly" THEN ButterflyRows(df.calls, df.puts, a)
        ELSE CondorRows(df.calls, df.puts, CondorCombo(df.calls, df.puts, a), a)

\* C14: the per-leg liquidity check is advisory: the emitted structures and
\* all their fields but the liquidity flag are the same for every maximum
\* leg spread and minimum leg volume, and a constructed structure is
\* removed only when its net credit is below the minimum credit.
C14_LiquidityAdvisory ==
    (pc = "returned" /\ impl \in {"iron_butterfly", "iron_condor"} /\ PreparedLegs # {}) =>
        \A c \in LiquidityChoices :
            LET Kept(r) == r.credit >= args.min_credit
            IN  StripAll(out) = SelectSeq(StripAll(ConstructedRows(c)), Kept)

\* an emitted structure that fails the liquidity check under the limits of
\* the page and passes it under other limits
C14_Witness ==
    /\ pc = "returned" /\ impl \in {"iron_butterfly", "iron_condor"} /\ PreparedLegs # {}
    /\ out # <<>> /\ ~out[1].legs_ok
    /\ \E c \in LiquidityChoices :
          CreditFilter(ConstructedRows(c), args.min_credit)[1].legs_ok

\* a text that is empty, all blank, or holds an item that is not a number
DefaultedText(wing_text) ==
    ParseFails(wing_text) \/ \A i \in 1..Len(wing_text) : wing_text[i] = Blank

\* what the builder of this state emits from the prepared chains for the
\* wing-width text t
EmittedFor(t) ==
    LET a == [args EXCEPT !.wing_text = t]
        rows == IF impl = "iron_butterfly" THEN ButterflyRows(df.calls, df.puts, a)
                ELSE IF impl = "iron_condor"
                     THEN CondorRows(df.calls, df.puts, CondorCombo(df.calls, df.puts, a), a)
                ELSE PageCondorRows(df.calls, df.puts, a)
    IN  CreditFilter(rows, a.min_credit)

\* C15: in every butterfly and condor builder a wing-width text that is
\* empty, all whitespace or unparsable gives the list [3, 5, 10]: the
\* emitted structures are those of the text "3,5,10".
C15_DefaultWings ==
    (pc = "returned" /\ PreparedLegs # {}
        /\ impl \in {"iron_butterfly", "iron_condor", "page_iron_condor"}
        /\ DefaultedText(args.wing_text)) =>
            out = EmittedFor(<<30, 50, 100>>)


\* the rows of a prepared chain on the out-of-the-money side of the spot
Otm(chain, is_call, S) ==
    {chain[i] : i \in {j \in 1..Len(chain) :
                          IF is_call THEN chain[j].strike > S ELSE chain[j].strike < S}}

\* the contracts the selection policy admits on one side: the
\* out-of-the-money rows inside the Delta band, else every out-of-the-money
\* row, else the row whose strike is nearest the spot
AdmittedShorts(chain, is_call, a) ==
    LET otm  == Otm(chain, is_call, a.spot)
        band == {r \in otm : /\ ~IsNaN(r.delta_abs)
                              /\ r.delta_abs >= a.short_delta_low
                              /\ r.delta_abs <= a.short_delta_high}
    IN  IF band # {} THEN band
        ELSE IF otm # {} THEN otm
        ELSE {r \in {chain[i] : i \in 1..Len(chain)} :
                \A i \in 1..Len(chain) : Abs(r.strike - a.spot) <= Abs(chain[i].strike - a.spot)}

\* the candidates are admitted ones, as many as top_k allows
SideAsClaimed(cands, chain, is_call, a) ==
    /\ \A n \in 1..Len(cands) : cands[n] \in AdmittedShorts(chain, is_call, a)
    /\ Len(cands) >= 1
    /\ \/ Len(cands) = a.top_k
       \/ Len(cands) = Cardinality(AdmittedShorts(chain, is_call, a))

\* C22: on each side the short-leg candidates of a condor are the strictly
\* out-of-the-money contracts with |Delta| in [deltaLow, deltaHigh], else all
\* strictly out-of-the-money contracts, else the single contract nearest the
\* in-the-money boundary; a non-empty chain yields at least one candidate
\* per side and a chain with no out-of-the-money strike produces no error.
C22_ShortCandidates ==
    /\ (impl \in {"iron_condor", "page_iron_condor"}) => pc \in {"ready", "returned"}
    /\ (impl = "iron_condor" /\ pc = "returned" /\ df.calls # <<>> /\ df.puts # <<>>) =>
          /\ SideAsClaimed(_short_put_candidates(df.puts, args.top_k, args.spot,
                                                 args.short_delta_low, args.short_delta_high),
                           df.puts, FALSE, args)
          /\ SideAsClaimed(_short_call_candidates(df.calls, args.top_k, args.spot,
                                                  args.short_delta_low, args.short_delta_high),
                           df.calls, TRUE, args)

\* the same for the chains that list a strike on the out-of-the-money side
\* of the spot on both sides
C22_ShortCandidatesWhenOtm ==
    (/\ impl \in {"iron_condor", "page_iron_condor"} /\ pc # "ready"
     /\ df.calls # <<>> /\ df.puts # <<>>
     /\ Otm(df.puts, FALSE, args.spot) # {} /\ Otm(df.calls, TRUE, args.spot) # {}) =>
        /\ pc = "returned"
        /\ impl = "iron_condor" =>
              /\ SideAsClaimed(_short_put_candidates(df.puts, args.top_k, args.spot,
                                                     args.short_delta_low, args.short_delta_high),
                               df.puts, FALSE, args)
              /\ SideAsClaimed(_short_call_candidates(df.calls, args.top_k, args.spot,
                                                      args.short_delta_low, args.short_delta_high),
                               df.calls, TRUE, args)


\* the premium a candidate is ranked by: its used mid, 0 when it has none
UsedPremium(r) == IF IsNaN(r.mid_used) THEN 0 ELSE r.mid_used

\* x ranks strictly before y: richer premium, then the strike nearer the spot
RanksBefore(x, y, is_call) ==
    \/ UsedPremium(x) > UsedPremium(y)
    \/ /\ UsedPremium(x) = UsedPremium(y)
       /\ IF is_call THEN x.strike < y.strike ELSE x.strike > y.strike

\* the candidates that survive the selection on one side
Survivors(chain, is_call, a) ==
    IF Otm(chain, is_call, a.spot) = {} THEN {} ELSE AdmittedShorts(chain, is_call, a)

\* cands is the ranked head of the survivors, at most top_k long
RankedTopK(cands, chain, is_call, a) ==
    /\ Len(cands) <= a.top_k
    /\ \A n \in 1..Len(cands) : cands[n] \in Survivors(chain, is_call, a)
    /\ \A n, k \in 1..Len(cands) : n < k => RanksBefore(cands[n], cands[k], is_call)
    /\ \A r \in Survivors(chain, is_call, a) :
          \/ \E n \in 1..Len(cands) : cands[n] = r
          \/ Len(cands) = a.top_k /\ RanksBefore(cands[Len(cands)], r, is_call)

\* combo is the cross-product of the two candidate lists, puts outermost
CrossProduct(combo, put_cands, call_cands) ==
    /\ Len(combo) = Len(put_cands) * Len(call_cands)
    /\ \A i \in 1..Len(put_cands) : \A j \in 1..Len(call_cands) :
          combo[(i - 1) * Len(call_cands) + j] = <<put_cands[i], call_cands[j]>>

\* C23: on each side the surviving candidates are ordered by used premium
\* descending, ties broken by the strike closer to spot (puts: higher strike
\* first; calls: lower strike first); at most top-K per side are kept; the
\* short-leg pairs considered are exactly the cross-product put-candidate x
\* call-candidate in that order, so at most K*K pairs.
C23_RankedCrossProduct ==
    (impl = "iron_condor" /\ pc = "returned" /\ df.calls # <<>> /\ df.puts # <<>>) =>
        /\ RankedTopK(_short_put_candidates(df.puts, args.top_k, args.spot,
                                            args.short_delta_low, args.short_delta_high),
                      df.puts, FALSE, args)
        /\ RankedTopK(_short_call_candidates(df.calls, args.top_k, args.spot,
                                             args.short_delta_low, args.short_delta_high),
                      df.calls, TRUE, args)
        /\ CrossProduct(CondorCombo(df.calls, df.puts, args),
                        _short_put_candidates(df.puts, args.top_k, args.spot,
                                              args.short_delta_low, args.short_delta_high),
                        _short_call_candidates(df.calls, args.top_k, args.spot,
                                               args.short_delta_low, args.short_delta_high))
        /\ Len(CondorCombo(df.calls, df.puts, args)) <= args.top_k * args.top_k

\* two candidates are kept of three surviving puts that tie on the premium,
\* and K*K pairs are formed
C23_Witness ==
    /\ impl = "iron_condor" /\ pc = "returned" /\ df.calls # <<>> /\ df.puts # <<>>
    /\ args.top_k = 2
    /\ Cardinality(Survivors(df.puts, FALSE, args)) = 3
    /\ \E x, y \in Survivors(df.puts, FALSE, args) : x # y /\ UsedPremium(x) = UsedPremium(y)
    /\ Len(CondorCombo(df.calls, df.puts, args)) = 4
    /\ CondorCombo(df.calls, df.puts, args)[1][1].strike = 1000
    /\ CondorCombo(df.calls, df.puts, args)[3][1].strike = 950
    /\ out # <<>>


\* C24: every emitted iron condor has long put < short put < short call <
\* long call and every emitted iron butterfly has long put < K < long call,
\* for every chain and every wing width.
C24_StrikesOrdered ==
    (pc = "returned" /\ impl \in {"iron_condor", "iron_butterfly"}) =>
        \A n \in 1..Len(out) :
            /\ out[n].long_put < out[n].short_put
            /\ out[n].short_call < out[n].long_call
            /\ IF impl = "iron_condor" THEN out[n].short_put < out[n].short_call
               ELSE out[n].short_put = out[n].short_call

\* the part that holds: the shorts never cross, and with a positive wing
\* width no long leg lies on the wrong side of its short leg
C24_StrikesWeaklyOrdered ==
    (pc = "returned" /\ impl \in {"iron_condor", "iron_butterfly"}) =>
        \A n \in 1..Len(out) :
            /\ out[n].W > 0 => /\ out[n].long_put <= out[n].short_put
                               /\ out[n].short_call <= out[n].long_call
            /\ IF impl = "iron_condor" THEN out[n].short_put < out[n].short_call
               ELSE out[n].short_put = out[n].short_call


\* the strikes a chain lists and the least distance from them to a target
StrikesOf(chain) == {chain[i].strike : i \in 1..Len(chain)}
LeastGap(chain, t) ==
    CHOOSE d \in {Abs(k - t) : k \in StrikesOf(chain)} :
        \A k \in StrikesOf(chain) : d <= Abs(k - t)

\* C25: with target = spot + offset, the butterfly's short strike K is the
\* call-chain strike nearest the target or the put-chain strike nearest the
\* target, at the least distance over all strikes of both chains; the
\* put-chain strike is chosen only when it is strictly nearer, so at equal
\* distance the call-chain strike is used.
C25_ShortStrike ==
    (impl = "iron_butterfly" /\ pc = "returned" /\ df.calls # <<>> /\ df.puts # <<>>) =>
        LET t == args.spot + args.allow_shift
            K == ButterflyK(df.calls, df.puts, t)
        IN  /\ \A k \in StrikesOf(df.calls) \cup StrikesOf(df.puts) : Abs(K - t) <= Abs(k - t)
            /\ IF LeastGap(df.puts, t) < LeastGap(df.calls, t)
               THEN K \in StrikesOf(df.puts) /\ Abs(K - t) = LeastGap(df.puts, t)
               ELSE K \in StrikesOf(df.calls) /\ Abs(K - t) = LeastGap(df.calls, t)
            /\ \A n \in 1..Len(out) : out[n].short_call = K /\ out[n].short_put = K

\* the put chain lists a strike strictly nearer the target than any call
\* strike, and a butterfly is emitted at it
C25_Witness ==
    /\ impl = "iron_butterfly" /\ pc = "returned" /\ df.calls # <<>> /\ df.puts # <<>>
    /\ LeastGap(df.puts, args.spot + args.allow_shift) < LeastGap(df.calls, args.spot + args.allow_shift)
    /\ ButterflyK(df.calls, df.puts, args.spot + args.allow_shift) \notin StrikesOf(df.calls)
    /\ out # <<>>
    /\ out[1].short_put = 900


\* the rows of a chain at the strike k
RowsAt(chain, k) == {chain[i] : i \in {j \in 1..Len(chain) : chain[j].strike = k}}

\* C26: in every emitted iron butterfly the short call leg and the short put
\* leg whose premiums, spreads and volumes enter the credit and the
\* liquidity summary have strike exactly K, the reported short strike, also
\* when only one of the two chains lists K.
C26_ShortLegsAtK ==
    (impl = "iron_butterfly" /\ pc = "returned") =>
        \A n \in 1..Len(out) :
            \E sc \in RowsAt(df.calls, out[n].short_call), sp \in RowsAt(df.puts, out[n].short_put),
               lc \in RowsAt(df.calls, out[n].long_call), lp \in RowsAt(df.puts, out[n].long_put) :
                /\ out[n].short_call = out[n].short_put
                /\ out[n].credit = (sc.mid_used + sp.mid_used) - (lc.mid_used + lp.mid_used)
                /\ out[n].max_leg_spread = PyMax4(sc.spread, sp.spread, lc.spread, lp.spread)
                /\ out[n].min_leg_volume = PyMin4(sc.volume, sp.volume, lc.volume, lp.volume)

\* the same for the butterflies whose short strike both chains list
C26_ShortLegsAtListedK ==
    (impl = "iron_butterfly" /\ pc = "returned") =>
        \A n \in 1..Len(out) :
            (out[n].short_call \in StrikesOf(df.calls) \cap StrikesOf(df.puts)) =>
            \E sc \in RowsAt(df.calls, out[n].short_call), sp \in RowsAt(df.puts, out[n].short_put),
               lc \in RowsAt(df.calls, out[n].long_call), lp \in RowsAt(df.puts, out[n].long_put) :
                /\ out[n].short_call = out[n].short_put
                /\ out[n].credit = (sc.mid_used + sp.mid_used) - (lc.mid_used + lp.mid_used)
                /\ out[n].max_leg_spread = PyMax4(sc.spread, sp.spread, lc.spread, lp.spread)
                /\ out[n].min_leg_volume = PyMin4(sc.volume, sp.volume, lc.volume, lp.volume)


\* the premium of the 'used' chain for a prepared row: the resolved mid
\* (two-sided average, else the single positive side), else the last trade,
\* else the theoretical price, else max(bid, ask)
UsedAsClaimed(r) ==
    IF Gt(r.bid, 0) /\ Gt(r.ask, 0) THEN (r.bid + r.ask) \div 2
    ELSE IF Gt(r.bid, 0) THEN r.bid
    ELSE IF Gt(r.ask, 0) THEN r.ask
    ELSE IF Gt(r.last, 0) THEN r.last
    ELSE IF Gt(r.theo, 0) THEN r.theo
    ELSE PyMax(PyMax(OrZero(r.bid), OrZero(r.ask)), 0)

\* every row of the two prepared chains
PreparedRows == {df.calls[i] : i \in 1..Len(df.calls)} \cup {df.puts[i] : i \in 1..Len(df.puts)}

\* C27: the premium used for each leg of a butterfly/condor is the resolved
\* mid if positive (average of bid and ask when both are positive, the single
\* positive side when only one is quoted), else the last trade if positive,
\* else the theoretical price if positive, else max(bid, ask); it is never
\* negative, and a positive single-sided quote is not overridden by the last
\* trade or the theoretical price.
C27_UsedPremium ==
    (pc = "returned" /\ impl \in {"iron_butterfly", "iron_condor"}
        /\ df.calls # <<>> /\ df.puts # <<>>) =>
        \A r \in PreparedRows :
            /\ r.mid_used = UsedAsClaimed(r)
            /\ ~Lt(r.mid_used, 0)
            /\ (Gt(r.bid, 0) /\ ~Gt(r.ask, 0)) => r.mid_used = r.bid
            /\ (Gt(r.ask, 0) /\ ~Gt(r.bid, 0)) => r.mid_used = r.ask

\* the same for the rows quoted on both sides or on neither
C27_UsedPremiumUnlessOneSided ==
    (pc = "returned" /\ impl \in {"iron_butterfly", "iron_condor"}
        /\ df.calls # <<>> /\ df.puts # <<>>) =>
        \A r \in PreparedRows :
            (Gt(r.bid, 0) <=> Gt(r.ask, 0)) =>
                /\ r.mid_used = UsedAsClaimed(r)
                /\ ~Lt(r.mid_used, 0)

\* ------------------------------------------------------------------------
\* Properties of the numeric functions
\* ------------------------------------------------------------------------
\* premium * 100 / capital and its annualization, in 1e-4
ExpectedSingle(premium, capital) == (premium * 100 * RetScale) \div capital
ExpectedAnnual(premium, capital, days) == (ExpectedSingle(premium, capital) * 365) \div days

DegenerateArgs == Le(args.S, 0) \/ Le(args.K, 0) \/ Le(args.sigma, 0) \/ args.days <= 0

\* C16: on degenerate inputs (S <= 0, K <= 0, sigma <= 0 or T <= 0) d1/d2,
\* Delta and ITM probability of both modules are the undefined sentinel: no
\* caller obtains a number that reads as a valid Delta or probability.
C16_DegenerateIsUndefined ==
    (pc = "returned" /\ impl = "greeks" /\ DegenerateArgs) =>
        /\ IsNaN(out.d1d2[1]) /\ IsNaN(out.d1d2[2])
        /\ IsNaN(out.put_delta) /\ IsNaN(out.call_delta)
        /\ IsNaN(out.itm_put) /\ IsNaN(out.itm_call)
        /\ IsNaN(out.calc_d1d2[1]) /\ IsNaN(out.calc_d1d2[2])
        /\ IsNaN(out.calc_put_delta) /\ IsNaN(out.calc_itm)

\* C17: for S > 0, K > 0, sigma > 0, T > 0: put Delta is in [-1, 0], call
\* Delta in [0, 1], call Delta - put Delta = 1, and the absolute put Delta
\* and the put ITM probability used for filtering are in [0, 1].
C17_DeltaBounds ==
    (pc = "returned" /\ impl = "greeks" /\ ~DegenerateArgs /\ ~IsNaN(args.S)) =>
        /\ out.put_delta >= -10000 /\ out.put_delta <= 0
        /\ out.call_delta >= 0 /\ out.call_delta <= 10000
        /\ out.call_delta - out.put_delta = 10000
        /\ Abs(out.put_delta) >= 0 /\ Abs(out.put_delta) <= 10000
        /\ out.itm_put >= 0 /\ out.itm_put <= 10000
        /\ out.calc_put_delta = Abs(out.put_delta)
        /\ out.calc_put_delta >= 0 /\ out.calc_put_delta <= 10000
        /\ out.calc_itm = out.itm_put

\* the arguments of test_bs_basic: S = K = 100, sigma = 0.2, T = 30/365
C17_Witness ==
    /\ pc = "returned" /\ impl = "greeks"
    /\ args.S = 1000 /\ args.K = 1000 /\ args.sigma = 200000 /\ args.days = 30
    /\ out.put_delta < 0 /\ out.put_delta > -10000
    /\ out.call_delta - out.put_delta = 10000
    /\ out.itm_put > 0 /\ out.itm_put < 10000

\* the target is the model price of sigma* = 0.30 for the arguments
RoundTripTarget ==
    /\ args.S = 1000 /\ args.target # None /\ Gt(args.target, 0)
    /\ args.target = IvPrice(args.S, args.K, 300000, args.days, args.kind)

\* the state of the loop: at most max_iter iterations, lo <= hi, sigma*
\* inside the bracket; what the function returns once the loop has run
IvLoopInv ==
    (impl = "implied_vol" /\ pc \in {"bisect", "returned"}) =>
        /\ out.n <= IvMaxIter /\ out.lo <= out.hi
        /\ RoundTripTarget => (out.lo <= 300000 /\ 300000 <= out.hi)
        /\ pc = "returned" =>
              /\ out.sigma = _implied_vol_from_price(args.target, args.S, args.K, args.days, args.kind)
              /\ IvBracket(args.target, args.S, args.K, args.days, args.kind) # <<>> =>
                    /\ ~IsNaN(out.sigma) /\ out.lo <= out.sigma /\ out.sigma <= out.hi
                    /\ \/ Abs(IvPrice(args.S, args.K, out.sigma, args.days, args.kind) - args.target) < IvTol
                       \/ out.n = IvMaxIter /\ out.sigma = (out.lo + out.hi) \div 2
              /\ RoundTripTarget =>
                    IvPrice(args.S, args.K, out.sigma, args.days, args.kind) = args.target

\* one iteration: the midpoint replaces one end and the width is halved
IvHalving ==
    (pc = "bisect" /\ pc' = "bisect") =>
        /\ out'.n = out.n + 1
        /\ out.lo <= (out.lo + out.hi) \div 2 /\ (out.lo + out.hi) \div 2 <= out.hi
        /\ \/ out'.lo = (out.lo + out.hi) \div 2 /\ out'.hi = out.hi
           \/ out'.hi = (out.lo + out.hi) \div 2 /\ out'.lo = out.lo
        /\ 2 * (out'.hi - out'.lo) <= (out.hi - out.lo) + 1

StartsFrom(grown) ==
    (impl = "implied_vol" /\ pc = "bisect" /\ out.n = 0) =>
        /\ out.lo = IvLo
        /\ \/ out.hi = IvHi
           \/ /\ args.target > IvPrice(args.S, args.K, IvHi, args.days, args.kind)
              /\ out.hi \in grown

\* C28: the search bracket starts at [1e-4, 5.0]; the upper bound is enlarged
\* only when the target exceeds the model price at the upper bound, by
\* doubling, in at most 10 steps, and neither the upper bound nor a returned
\* sigma ever exceeds 20.0.
C28_BracketBounds ==
    /\ StartsFrom({IvHi * 2, IvHi * 4})
    /\ (impl = "implied_vol" /\ pc \in {"bisect", "returned"}) =>
          /\ out.hi <= 20000000
          /\ IsNaN(out.sigma) \/ out.sigma <= 20000000

\* what holds: the upper bound grows by half of itself, at most four times,
\* stops at the first value above 20.0 and so stays below 30.0
C28_BracketAsBuilt ==
    /\ StartsFrom({7500000, 11250000, 16875000, 25312500})
    /\ (impl = "implied_vol" /\ pc \in {"bisect", "returned"}) =>
          /\ out.hi <= 25312500
          /\ IsNaN(out.sigma) \/ out.sigma <= 25312500


\* the inputs for which the inversion is undefined: a missing or non-positive
\* target, a non-positive S, K or T, a target below the price at sigma = 1e-4
IvUndefinedFor(a) ==
    \/ a.target = None \/ IsNaN(a.target) \/ a.target <= 0
    \/ a.S <= 0 \/ a.K <= 0 \/ a.days <= 0
    \/ a.target < IvPrice(a.S, a.K, IvLo, a.days, a.kind)

\* C29: the inversion returns the undefined value, without raising, whenever
\* the target is missing or <= 0, or S <= 0, or K <= 0, or T <= 0, or the
\* target is below the model price at the lower volatility bound; the
\* evaluator backfills the implied volatility only when the quoted one is
\* absent or non-positive, the premium is > 0 and the spot is > 0, and a
\* positive quoted implied volatility is never overwritten.
C29_UndefinedAndBackfill ==
    /\ impl = "implied_vol" =>
          /\ pc \in {"ready", "bisect", "returned"}
          /\ pc = "bisect" => ~IvUndefinedFor(args)
          /\ (pc = "returned" /\ IvUndefinedFor(args)) => IsNaN(out.sigma)
    /\ (impl = "checklist" /\ pc # "ready") =>
          /\ pc \in {"returned", "raised_volume"}
          /\ \A n \in 1..Len(out) :
                /\ Gt(out[n].l_iv_quote, 0) =>
                      out[n].iv = out[n].l_iv_quote /\ ~out[n].l_inverted
                /\ out[n].l_inverted =>
                      /\ ~Gt(out[n].l_iv_quote, 0)
                      /\ out[n].premium > 0 /\ Gt(args.spot, 0)
                      /\ Gt(out[n].iv, 0)
                /\ ~out[n].l_inverted => out[n].iv = out[n].l_iv_quote

\* a positive target below the price at the lower bound returns undefined
C29_Witness ==
    /\ impl = "implied_vol" /\ pc = "returned"
    /\ args.target # None /\ Gt(args.target, 0)
    /\ args.S > 0 /\ args.K > 0 /\ args.days > 0
    /\ args.target < IvPrice(args.S, args.K, IvLo, args.days, args.kind)
    /\ IsNaN(out.sigma)
    /\ out.n = 0

\* ------------------------------------------------------------------------
\* yahoo_client.YahooClient (the second class of the file, the one in force)
\* ------------------------------------------------------------------------
\* time.sleep(0.6 + 0.2 * i), in tenths of a second
Mut__sleep_backoff_Fixed(i) == 8

\* time.sleep(0.6 + 0.2 * i), in tenths of a second
_sleep_backoff(i) == 6 + 2 * i

ExpirationAttempts == 3   \* for i in range(3) of get_expirations
ChainAttempts      == 3   \* for i in range(3) of get_option_chain
FastInfoAttempts   == 3   \* for i in range(3) over fast_info
InfoAttempts       == 2   \* for i in range(2) over info
HistoryAttempts    == 2   \* for i in range(2) over history

\* the columns of a yfinance option frame and their names downstream
YfColumns ==
    {"contractSymbol", "strike", "bid", "ask", "lastPrice",
     "impliedVolatility", "inTheMoney", "volume", "openInterest"}

RenameColumn(c) ==
    CASE c = "contractSymbol"    -> "contract_symbol"
      [] c = "openInterest"      -> "open_interest"
      [] c = "impliedVolatility" -> "implied_vol"
      [] c = "inTheMoney"        -> "in_the_money"
      [] c = "lastPrice"         -> "last_price"
      [] OTHER                   -> c

NeededColumns ==
    {"contract_symbol", "strike", "bid", "ask", "last_price",
     "implied_vol", "in_the_money", "volume", "open_interest"}

\* the columns of the fallback frame
FallbackColumns ==
    {"contract_symbol", "strike", "bid", "ask", "last_price", "implied_vol",
     "in_the_money", "volume", "open_interest", "ticker", "expiration", "updated_at"}

\* (kind or "put").lower() over the kinds the callers pass
LowerKind(kind) ==
    CASE kind = ""     -> "put"
      [] kind = "PUT"  -> "put"
      [] kind = "CALL" -> "call"
      [] OTHER         -> kind

\* the frame a successful attempt returns: one side of the chain, renamed,
\* completed with the needed columns and the metadata columns
NormalizeChain(oc, kind) ==
    LET raw == IF LowerKind(kind) = "put" THEN oc.puts ELSE oc.calls
    IN  [columns |-> {RenameColumn(c) : c \in raw.columns} \cup NeededColumns
                        \cup {"ticker", "expiration", "updated_at"},
         rows    |-> raw.rows]

\* pd.DataFrame(columns=cols)
FallbackChain == [columns |-> FallbackColumns, rows |-> 0]

\* what the remote side can answer
OptionLists == {<<Today + 30>>, <<Today + 30, Today + 60>>}
RawChains ==
    {[puts |-> [columns |-> pcols, rows |-> 2], calls |-> [columns |-> ccols, rows |-> n]] :
        pcols \in {YfColumns, YfColumns \ {"volume"}},
        ccols \in {YfColumns \cup {"currency"}},
        n \in {0, 1}}
SpotValues == {NaN, 0, 1000}

\* the position after an attempt that did not return
AfterFailure(o, outcome, waits) ==
    [o EXCEPT !.i = @ + 1,
              !.log = Append(@, outcome),
              !.slept = @ \o waits]

\* one attempt of get_expirations
GetExpirations ==
    /\ impl = "get_expirations"
    /\ pc \in {"ready", "retry"}
    /\ \/ \* self._tkr.options raises
          /\ out' = AfterFailure(out, "raised", <<_sleep_backoff(out.i)>>)
          /\ pc' = IF out.i + 1 = ExpirationAttempts THEN "returned" ELSE "retry"
       \/ \* an empty answer: the loop goes on without a wait
          /\ out' = AfterFailure(out, "empty", <<>>)
          /\ pc' = IF out.i + 1 = ExpirationAttempts THEN "returned" ELSE "retry"
       \/ \E exps \in OptionLists :
             /\ out' = [out EXCEPT !.log = Append(@, "ok"), !.got = exps, !.result = exps]
             /\ pc' = "returned"
    /\ UNCHANGED <<impl, df, args>>

\* one attempt of get_option_chain
GetOptionChain ==
    /\ impl = "get_option_chain"
    /\ pc \in {"ready", "retry"}
    /\ \/ \* option_chain(exp) or the normalisation raises
          /\ out' = AfterFailure(out, "raised", <<_sleep_backoff(out.i)>>)
          /\ pc' = IF out.i + 1 = ChainAttempts THEN "returned" ELSE "retry"
       \/ \E oc \in RawChains :
             /\ out' = [out EXCEPT !.log = Append(@, "ok"), !.got = oc,
                                   !.result = NormalizeChain(oc, args.kind)]
             /\ pc' = "returned"
    /\ UNCHANGED <<impl, df, args>>

\* get_spot_price, one attempt over fast_info
SpotFastInfo ==
    /\ impl = "get_spot_price"
    /\ pc \in {"ready", "retry"}
    /\ out.phase = "fast_info"
    /\ \/ /\ out' = IF out.i + 1 = FastInfoAttempts
                    THEN [AfterFailure(out, "raised", <<_sleep_backoff(out.i)>>)
                             EXCEPT !.phase = "info", !.i = 0]
                    ELSE AfterFailure(out, "raised", <<_sleep_backoff(out.i)>>)
          /\ pc' = "retry"
       \/ \* no fast_info, or none of its candidates: break
          /\ out' = [out EXCEPT !.log = Append(@, "none"), !.phase = "info", !.i = 0]
          /\ pc' = "retry"
       \/ \E v \in SpotValues :
             /\ out' = [out EXCEPT !.log = Append(@, "ok"), !.got = v, !.result = v]
             /\ pc' = "returned"
    /\ UNCHANGED <<impl, df, args>>

\* get_spot_price, one attempt over info
SpotInfo ==
    /\ impl = "get_spot_price"
    /\ pc = "retry"
    /\ out.phase = "info"
    /\ \/ /\ out' = IF out.i + 1 = InfoAttempts
                    THEN [AfterFailure(out, "raised", <<_sleep_backoff(out.i)>>)
                             EXCEPT !.phase = "history", !.i = 0]
                    ELSE AfterFailure(out, "raised", <<_sleep_backoff(out.i)>>)
          /\ pc' = "retry"
       \/ /\ out' = [out EXCEPT !.log = Append(@, "none"), !.phase = "history", !.i = 0]
          /\ pc' = "retry"
       \/ \E v \in SpotValues :
             /\ out' = [out EXCEPT !.log = Append(@, "ok"), !.got = v, !.result = v]
             /\ pc' = "returned"
    /\ UNCHANGED <<impl, df, args>>

\* get_spot_price, one attempt over history; the last one falls to NaN
SpotHistory ==
    /\ impl = "get_spot_price"
    /\ pc = "retry"
    /\ out.phase = "history"
    /\ \/ /\ out' = AfterFailure(out, "raised", <<_sleep_backoff(out.i)>>)
          /\ pc' = IF out.i + 1 = HistoryAttempts THEN "returned" ELSE "retry"
       \/ \* an empty history: the loop goes on without a wait
          /\ out' = AfterFailure(out, "empty", <<>>)
          /\ pc' = IF out.i + 1 = HistoryAttempts THEN "returned" ELSE "retry"
       \/ \E v \in SpotValues :
             /\ out' = [out EXCEPT !.log = Append(@, "ok"), !.got = v, !.result = v]
             /\ pc' = "returned"
    /\ UNCHANGED <<impl, df, args>>

ClientKinds == {"put", "PUT", "call", ""}

InitClient ==
    /\ pc = "ready"
    /\ df = <<>>
    /\ \/ /\ impl = "get_expirations"
          /\ args = [ticker |-> "AAPL"]
          /\ out = [phase |-> "options", i |-> 0, log |-> <<>>, slept |-> <<>>,
                    got |-> <<>>, result |-> <<>>]
       \/ /\ impl = "get_option_chain"
          /\ args \in [ticker : {"AAPL"}, exp : {Today + 30}, kind : ClientKinds]
          /\ out = [phase |-> "chain", i |-> 0, log |-> <<>>, slept |-> <<>>,
                    got |-> FallbackChain, result |-> FallbackChain]
       \/ /\ impl = "get_spot_price"
          /\ args = [ticker |-> "AAPL"]
          /\ out = [phase |-> "fast_info", i |-> 0, log |-> <<>>, slept |-> <<>>,
                    got |-> NaN, result |-> NaN]

NextClient == GetExpirations \/ GetOptionChain \/ SpotFastInfo \/ SpotInfo \/ SpotHistory

SpecClient == InitClient /\ [][NextClient]_vars

\* ------------------------------------------------------------------------
\* Properties of the market-data client
\* ------------------------------------------------------------------------
\* the positions in the log of the attempts that raised
RaisedAt(log) == {j \in 1..Len(log) : log[j] = "raised"}

\* the waits a loop makes for its log: 0.6 + 0.2 * i seconds after the
\* attempt of index i when it raised, none otherwise
RECURSIVE WaitsFor(_, _)
WaitsFor(log, j) ==
    IF j > Len(log) THEN <<>>
    ELSE (IF log[j] = "raised" THEN <<<<6, 8, 10>>[j]>> ELSE <<>>) \o WaitsFor(log, j + 1)

\* attempts, first success and fallback of the two retrying fetchers
RetryThenFallback(attempts, fallback) ==
    /\ pc \in {"ready", "retry", "returned"}
    /\ Len(out.log) <= attempts
    /\ pc = "retry" => Len(out.log) < attempts
    /\ \A j \in 1..Len(out.log) : out.log[j] = "ok" => (j = Len(out.log) /\ pc = "returned")
    /\ pc = "returned" =>
          IF out.log[Len(out.log)] = "ok"
          THEN out.result # fallback
          ELSE Len(out.log) = attempts /\ out.result = fallback

\* C20 as stated: the wait is the same after every failed attempt
C20_FixedBackoff ==
    /\ impl = "get_expirations" =>
          /\ RetryThenFallback(3, <<>>)
          /\ Len(out.slept) = Cardinality(RaisedAt(out.log))
          /\ \A j, k \in 1..Len(out.slept) : out.slept[j] = out.slept[k]
    /\ impl = "get_option_chain" =>
          /\ RetryThenFallback(3, FallbackChain)
          /\ Len(out.slept) = Cardinality(RaisedAt(out.log))
          /\ \A j, k \in 1..Len(out.slept) : out.slept[j] = out.slept[k]
    /\ impl = "get_spot_price" =>
          /\ pc \in {"ready", "retry", "returned"}
          /\ (pc = "returned" /\ out.log[Len(out.log)] # "ok") => IsNaN(out.result)

\* C20: get_expirations and get_option_chain make at most 3 attempts and
\* return the result of the first attempt that succeeds (the list of
\* expirations; the requested side of the chain with the expected columns);
\* they wait 0.6 + 0.2 * i seconds after the attempt of index i when it
\* raised and do not wait after an empty answer; after the last failed
\* attempt they return an empty list / an empty table with the expected
\* columns instead of raising. get_spot_price never raises and returns NaN
\* when every source fails.
C20_RetryThenFallback ==
    /\ impl = "get_expirations" =>
          /\ RetryThenFallback(3, <<>>)
          /\ out.slept = WaitsFor(out.log, 1)
          /\ (pc = "returned" /\ out.log[Len(out.log)] = "ok") => out.result = out.got
    /\ impl = "get_option_chain" =>
          /\ RetryThenFallback(3, FallbackChain)
          /\ out.slept = WaitsFor(out.log, 1)
          /\ FallbackChain.rows = 0 /\ FallbackChain.columns = FallbackColumns
          /\ (pc = "returned" /\ out.log[Len(out.log)] = "ok") =>
                /\ FallbackColumns \subseteq out.result.columns
                /\ out.result.rows = (IF args.kind \in {"put", "PUT", ""}
                                      THEN out.got.puts.rows ELSE out.got.calls.rows)
    /\ impl = "get_spot_price" =>
          /\ pc \in {"ready", "retry", "returned"}
          /\ Len(out.log) <= 7
          /\ (pc = "returned" /\ out.log[Len(out.log)] # "ok") => IsNaN(out.result)
          /\ (pc = "returned" /\ out.log[Len(out.log)] = "ok") => out.result = out.got

\* the chain fetch fails three times, waits 0.6, 0.8 and 1.0 seconds and
\* returns the empty table
C20_Witness ==
    /\ impl = "get_option_chain" /\ pc = "returned"
    /\ out.log = <<"raised", "raised", "raised">>
    /\ out.slept = <<6, 8, 10>>
    /\ out.result = FallbackChain

====
